---------------------------- MODULE Spec2Model ----------------------------
(***************************************************************************)
(* A model of baracota-node-db's query builder, relation resolver,         *)
(* persistence operations and transaction wrapper, as built in             *)
(* dist/BaseModel.js (the shipped build; src/BaseModel.ts is an older      *)
(* revision whose constructor rejects every instance).                     *)
(*                                                                         *)
(* Conventions                                                             *)
(*  - SQL text is modelled as the sequence of its whitespace-separated     *)
(*    lexemes ("tokens"); joining with " " is implicit.                    *)
(*  - A dotted relation path "a.b" is modelled as the sequence of its      *)
(*    segments <<"a","b">>, i.e. the result of split(".").                 *)
(*  - JavaScript null and undefined are the integers null and undefined.   *)
(*  - A condition's value is always a sequence: <<v>> for a scalar, the    *)
(*    array itself for IN / BETWEEN, <<>> when the call passes no value.   *)
(***************************************************************************)
EXTENDS Integers, Sequences, FiniteSets, TLC

VARIABLES
    m,          \* the model / builder instance under test (a BaseModel object)
    relations,  \* BaseModel.relations, the relation registry
    db,         \* the rows held by the database behind the driver
    sent,       \* statements the most recent call handed to the driver
    last,       \* the most recent call on m and how it ended
    result,     \* row objects produced by the most recent terminal fetch
    config,     \* BaseModel.config
    conn        \* BaseModel.connection: the adapter, and the calls the most recent
                \* transaction() made on it

vars == <<m, relations, db, sent, last, result, config, conn>>

-----------------------------------------------------------------------------
(* Bounds of the model *)

\* conditions that may be pending on the instance
MaxPending == 2
\* ORDER BY entries that may be pending on the instance
MaxOrder == 1
\* nesting of groupStart()
MaxGroupLevel == 2
\* rows in the root table
MaxParents == 3
\* the driver may fail at the 1st .. MaxFailAt-th statement of a call
MaxFailAt == 2
\* statements a transaction callback may issue
MaxStatements == 2
\* pooled connections that transactions may leave checked out
MaxHeld == 2
\* connections of the MySQL pool
PoolSize == 5
\* free connections the pool may choose between on a getConnection()
MaxPick == 2
\* the largest maxDepth option passed to with()
MaxDepthOption == 2

-----------------------------------------------------------------------------
(* JavaScript values *)

null == 0 - 1
undefined == 0 - 2


RECURSIVE SeqRange(_)
SeqRange(s) == IF s = <<>> THEN {} ELSE {Head(s)} \cup SeqRange(Tail(s))

RECURSIVE FlatConcat(_)
FlatConcat(ss) == IF ss = <<>> THEN <<>> ELSE Head(ss) \o FlatConcat(Tail(ss))

\* Array.prototype.join on token sequences: parts separated by sep
RECURSIVE JoinTokens(_, _)
JoinTokens(parts, sep) ==
    IF parts = <<>> THEN <<>>
    ELSE IF Len(parts) = 1 THEN Head(parts)
    ELSE Head(parts) \o sep \o JoinTokens(Tail(parts), sep)

\* value.map(() => "?") joined by ","
Placeholders(n) == JoinTokens([i \in 1..n |-> <<"?">>], <<",">>)

-----------------------------------------------------------------------------
(* Model configuration of the entities used as fixtures *)

Entities == {"User", "Post", "Comment", "Team", "Role", "Profile"}

EntityTable(e) ==
    CASE e = "User" -> "users"
      [] e = "Post" -> "posts"
      [] e = "Comment" -> "comments"
      [] e = "Team" -> "teams"
      [] e = "Role" -> "roles"
      [] OTHER -> "profiles"

EntityFields(e) ==
    CASE e = "User" -> <<"id", "status", "age", "team_id">>
      [] e = "Post" -> <<"id", "user_id">>
      [] e = "Comment" -> <<"id", "post_id">>
      [] e = "Team" -> <<"id">>
      [] e = "Role" -> <<"id">>
      [] OTHER -> <<"id", "user_id">>

\* constructor(): a fresh instance, with the configuration of entity e
NewModel(e) ==
    [name |-> e,
     table |-> EntityTable(e),
     primaryKey |-> "id",
     allowedFields |-> EntityFields(e),
     whereConditions |-> <<>>,
     whereOrConditions |-> <<>>,
     whereConditionsRaw |-> <<>>,
     orderByConditions |-> <<>>,
     _limit |-> null,
     offset |-> null,
     selectSumFields |-> <<>>,
     whereGroupLevel |-> 0,
     whereGroupConditions |-> <<>>,
     _eagerLoad |-> [constraints |-> {}, relations |-> <<>>,
                     currentDepth |-> 0, maxDepth |-> 3]]

-----------------------------------------------------------------------------
(* Fluent builder calls.  Each takes the instance and returns the instance. *)

Cond(field, operator, value, conjunction, level) ==
    [type |-> "", field |-> field, operator |-> operator, value |-> value,
     conjunction |-> conjunction, group_level |-> level, conditions |-> <<>>]

Group(conjunction, conditions) ==
    [type |-> "group", field |-> "", operator |-> "", value |-> <<>>,
     conjunction |-> conjunction, group_level |-> 0, conditions |-> conditions]

addWhereCondition(self, field, operator, value, conjunction) ==
    LET condition == Cond(field, operator, value, conjunction, self.whereGroupLevel)
    IN  IF self.whereGroupLevel > 0
        THEN [self EXCEPT !.whereGroupConditions = Append(@, condition)]
        ELSE [self EXCEPT !.whereConditions = Append(@, condition)]

\* where(field, value) and where(field, operator, value)
where(self, field, operator, value) ==
    addWhereCondition(self, field, operator, <<value>>, "AND")

whereNull(self, field) == addWhereCondition(self, field, "IS NULL", <<>>, "AND")

whereNotNull(self, field) == addWhereCondition(self, field, "IS NOT NULL", <<>>, "AND")

whereIn(self, field, values) == addWhereCondition(self, field, "IN", values, "AND")

whereBetween(self, field, range) == addWhereCondition(self, field, "BETWEEN", range, "AND")

groupStart(self) == [self EXCEPT !.whereGroupLevel = @ + 1]

groupEnd(self) ==
    IF self.whereGroupLevel > 0 THEN [self EXCEPT !.whereGroupLevel = @ - 1] ELSE self

\* Tokens that the regex /([a-zA-Z_][a-zA-Z0-9_]*)/g matches in the fragments used
IdentTokens ==
    {"id", "status", "age", "team_id", "secret", "updated_at", "deleted_at",
     "IS", "NULL", "DROP", "drop", "TABLE", "table"}

dangerousKeywords == {"DROP", "DELETE", "TRUNCATE", "INSERT", "UPDATE", "GRANT"}

\* the keywords kw with t.toUpperCase().includes(kw), for the tokens used
KeywordsIn(t) ==
    CASE t \in {"DROP", "drop"} -> {"DROP"}
      [] t = "updated_at" -> {"UPDATE"}
      [] OTHER -> {}

\* a faulty variant of whereRaw that checks the identifiers only
whereRawNoKeywordCheck(self, sql, params) ==
    IF \E t \in SeqRange(sql) :
           t \in IdentTokens /\ t \notin SeqRange(self.allowedFields) \cup {self.primaryKey}
    THEN [ok |-> FALSE, self |-> self]
    ELSE [ok |-> TRUE,
          self |-> [self EXCEPT !.whereConditionsRaw =
                       Append(@, [sql |-> sql, params |-> params])]]

\* whereRaw: [ok |-> FALSE] when it throws, else the instance with the fragment stored
whereRaw(self, sql, params) ==
    LET fields == {t \in SeqRange(sql) : t \in IdentTokens}
        allowed == SeqRange(self.allowedFields) \cup {self.primaryKey}
    IN  IF \E f \in fields : f \notin allowed
        THEN [ok |-> FALSE, self |-> self]
        ELSE IF \E t \in SeqRange(sql) : KeywordsIn(t) \cap dangerousKeywords # {}
        THEN [ok |-> FALSE, self |-> self]
        ELSE [ok |-> TRUE,
              self |-> [self EXCEPT !.whereConditionsRaw =
                           Append(@, [sql |-> sql, params |-> params])]]

\* orWhere(field, value, operator = "=")
orWhere(self, field, value, operator) ==
    IF value = null
    THEN whereRaw(self, <<field, "IS", "NULL">>, <<>>)
    ELSE LET condition == Cond(field, operator, <<value>>, "", self.whereGroupLevel)
         IN  [ok |-> TRUE,
              self |-> IF self.whereGroupLevel > 0
                       THEN [self EXCEPT !.whereGroupConditions = Append(@, condition)]
                       ELSE [self EXCEPT !.whereOrConditions = Append(@, condition)]]

orderBy(self, field, direction) ==
    [self EXCEPT !.orderByConditions =
        Append(@, [field |-> field,
                   direction |-> IF direction \in {"DESC", "desc"} THEN "DESC" ELSE "ASC"])]

limit(self, n, off) == [self EXCEPT !._limit = n, !.offset = off]

\* selectSum(field, alias = null): selectSumFields[field] = alias || field
selectSum(self, field, alias) ==
    LET a == IF alias = "" THEN field ELSE alias
        has == \E i \in 1..Len(self.selectSumFields) : self.selectSumFields[i].field = field
    IN  IF has
        THEN [self EXCEPT !.selectSumFields =
                 [i \in 1..Len(@) |-> IF @[i].field = field
                                      THEN [field |-> field, alias |-> a] ELSE @[i]]]
        ELSE [self EXCEPT !.selectSumFields = Append(@, [field |-> field, alias |-> a])]

\* with(relations, options): maxDepth: options?.maxDepth || 3
with(self, rels, constraints, maxDepth) ==
    [self EXCEPT !._eagerLoad =
        [relations |-> rels, constraints |-> constraints, currentDepth |-> 0,
         maxDepth |-> IF maxDepth = undefined \/ maxDepth = 0 THEN 3 ELSE maxDepth]]

\* A callback handed to whereGroup / orWhereGroup is a sequence of fluent calls
\* [fn, field, operator, value, cb] that it makes on the builder it receives.
Call(fn, field, operator, value, cb) ==
    [fn |-> fn, field |-> field, operator |-> operator, value |-> value, cb |-> cb]

RECURSIVE RunCallback(_, _)
RECURSIVE whereGroupWith(_, _, _)

\* whereGroup (conjunction "AND") and orWhereGroup (conjunction "OR")
whereGroupWith(self, callback, conjunction) ==
    LET entered == [self EXCEPT !.whereGroupLevel = @ + 1]
        ran == RunCallback(entered, callback)
        left == [ran EXCEPT !.whereGroupLevel = @ - 1]
    IN  IF left.whereGroupLevel = 0 /\ Len(left.whereGroupConditions) > 0
        THEN [left EXCEPT !.whereConditions =
                              Append(@, Group(conjunction, left.whereGroupConditions)),
                          !.whereGroupConditions = <<>>]
        ELSE left

RunCallback(self, calls) ==
    IF calls = <<>> THEN self
    ELSE LET c == Head(calls)
             next == CASE c.fn = "where" -> where(self, c.field, c.operator, c.value[1])
                       [] c.fn = "whereIn" -> whereIn(self, c.field, c.value)
                       [] c.fn = "whereNull" -> whereNull(self, c.field)
                       [] c.fn = "orWhere" -> orWhere(self, c.field, c.value[1], c.operator).self
                       [] c.fn = "whereGroup" -> whereGroupWith(self, c.cb, "AND")
                       [] c.fn = "orWhereGroup" -> whereGroupWith(self, c.cb, "OR")
                       [] OTHER -> self
         IN  RunCallback(next, Tail(calls))

whereGroup(self, callback) == whereGroupWith(self, callback, "AND")

orWhereGroup(self, callback) == whereGroupWith(self, callback, "OR")

\* a faulty variant of resetQuery that forgets the ORDER BY list
resetQueryKeepingOrder(self) ==
    [self EXCEPT !.whereConditions = <<>>,
                 !.whereOrConditions = <<>>,
                 !.whereConditionsRaw = <<>>,
                 !.whereGroupConditions = <<>>,
                 !.whereGroupLevel = 0,
                 !._limit = null,
                 !.offset = null,
                 !.selectSumFields = <<>>]

resetQuery(self) ==
    [self EXCEPT !.whereConditions = <<>>,
                 !.whereOrConditions = <<>>,
                 !.whereConditionsRaw = <<>>,
                 !.whereGroupConditions = <<>>,
                 !.whereGroupLevel = 0,
                 !.orderByConditions = <<>>,
                 !._limit = null,
                 !.offset = null,
                 !.selectSumFields = <<>>]

-----------------------------------------------------------------------------
(* Clause compiler *)

\* buildSingleCondition: the clause's tokens and the parameters it pushes
buildSingleCondition(condition) ==
    LET field == condition.field
        operator == condition.operator
        value == condition.value
    IN  CASE operator \in {"IN", "NOT IN"} ->
               [sql |-> <<field, operator, "(">> \o Placeholders(Len(value)) \o <<")">>,
                params |-> value]
          [] operator \in {"BETWEEN", "NOT BETWEEN"} ->
               [sql |-> <<field, operator, "?", "AND", "?">>, params |-> value]
          [] operator \in {"IS NULL", "IS NOT NULL"} ->
               [sql |-> <<field, operator>>, params |-> <<>>]
          [] OTHER ->
               [sql |-> <<field, operator, "?">>, params |-> <<value[1]>>]

\* buildWhereClauses.  this.buildConditionGroup is defined nowhere in the class,
\* so reaching a group condition throws (a TypeError) before anything is returned.
\* has: whether the returned sql is defined (clauses.length > 0).
buildWhereClauses(self) ==
    LET conds == self.whereConditions
        raws == self.whereConditionsRaw
        singles == [i \in 1..Len(conds) |-> buildSingleCondition(conds[i])]
        clauses == [i \in 1..Len(conds) |-> singles[i].sql]
                       \o [i \in 1..Len(raws) |-> raws[i].sql]
        params == FlatConcat([i \in 1..Len(conds) |-> singles[i].params])
                       \o FlatConcat([i \in 1..Len(raws) |-> raws[i].params])
    IN  IF \E i \in 1..Len(conds) : conds[i].type = "group"
        THEN [threw |-> TRUE, has |-> FALSE, sql |-> <<>>, params |-> <<>>]
        ELSE [threw |-> FALSE,
              has |-> Len(clauses) > 0,
              sql |-> JoinTokens(clauses, <<"AND">>),
              params |-> params]

-----------------------------------------------------------------------------
(* The driver: connection.query / connection.execute *)

\* row[c] of a fetched row object
Col(row, c) == IF c \in DOMAIN row.cols THEN row.cols[c] ELSE undefined

RelationNames == {"posts", "comments", "profile", "team", "roles"}

\* the value of a relation property of a row object
RelUndefined == [kind |-> "undefined", rows |-> <<>>]
RelNull == [kind |-> "null", rows |-> <<>>]
RelObject(row) == [kind |-> "object", rows |-> <<row>>]
RelArray(rows) == [kind |-> "array", rows |-> rows]

\* a row object as the driver returns it: its columns, no relation attached
RowObject(cols) == [cols |-> cols, rel |-> [r \in RelationNames |-> RelUndefined]]

\* whether a stored row satisfies a compiled condition (SQL three-valued logic:
\* a comparison with NULL is not true)
Satisfies(cols, c) ==
    LET v == IF c.field \in DOMAIN cols THEN cols[c.field] ELSE null
        args == c.value
    IN  CASE c.operator = "=" -> v # null /\ args[1] # null /\ v = args[1]
          [] c.operator = ">" -> v # null /\ args[1] # null /\ v > args[1]
          [] c.operator = "IN" -> v # null /\ \E i \in 1..Len(args) : args[i] = v
          [] c.operator = "BETWEEN" -> v # null /\ args[1] <= v /\ v <= args[2]
          [] c.operator = "IS NULL" -> v = null
          [] c.operator = "IS NOT NULL" -> v # null
          [] OTHER -> TRUE

RECURSIVE SelectSeq2(_, _)
SelectSeq2(rows, conds) ==
    IF rows = <<>> THEN <<>>
    ELSE (IF \A i \in 1..Len(conds) : Satisfies(Head(rows), conds[i])
          THEN <<Head(rows)>> ELSE <<>>) \o SelectSeq2(Tail(rows), conds)

\* what the database answers to a SELECT: plan = [table, conds, limit, offset, sum]
DriverRows(plan) ==
    LET matched == SelectSeq2(db[plan.table], plan.conds)
        from == IF plan.limit # null /\ plan.offset # null /\ plan.offset > 0
                THEN plan.offset + 1 ELSE 1
        to == IF plan.limit # null
              THEN (IF from + plan.limit - 1 < Len(matched)
                    THEN from + plan.limit - 1 ELSE Len(matched))
              ELSE Len(matched)
        page == SubSeq(matched, from, to)
    IN  IF plan.sum
        THEN <<RowObject([sum |-> Len(matched)])>>
        ELSE [i \in 1..Len(page) |-> RowObject(page[i])]

\* the database rejects a statement that names an unknown table or column
PlanValid(plan) ==
    /\ plan.table \in DOMAIN db
    /\ \A i \in 1..Len(plan.conds) : plan.conds[i].field \in plan.columns

TableColumns(t) ==
    CASE t = "users" -> {"id", "status", "age", "team_id"}
      [] t = "posts" -> {"id", "user_id"}
      [] t = "comments" -> {"id", "post_id"}
      [] t = "profiles" -> {"id", "user_id"}
      [] t = "user_role" -> {"user_id", "role_id"}
      [] OTHER -> {"id"}

\* The i/o of one call: the statements sent so far, the statement at which the
\* driver will fail (0: none), the error raised so far ("" : none), and the
\* validate / hook / setTimestamps calls made so far, each with the number of
\* statements that had been sent when it was made.
NewIO(failAt) == [sent |-> <<>>, failAt |-> failAt, err |-> "", calls |-> <<>>]

\* await this.<fn>(...): the overridable collaborator fn is invoked
Called(io, fn) == [io EXCEPT !.calls = Append(@, [fn |-> fn, sent |-> Len(io.sent)])]

Throw(io, e) == [io EXCEPT !.err = e]

\* executeQuery(sql, params): the statement goes to connection.query
executeQuery(io, sql, params, plan) ==
    LET stmt == [via |-> "query", sql |-> sql, params |-> params]
        fails == Len(io.sent) + 1 = io.failAt \/ ~PlanValid(plan)
    IN  [io |-> [io EXCEPT !.sent = Append(@, stmt),
                           !.err = IF fails THEN "driver" ELSE @],
         rows |-> IF fails THEN <<>> ELSE DriverRows(plan)]

\* executeUpdate(sql, params): the statement goes to connection.execute
executeUpdate(io, sql, params) ==
    LET stmt == [via |-> "execute", sql |-> sql, params |-> params]
        fails == Len(io.sent) + 1 = io.failAt
    IN  [io EXCEPT !.sent = Append(@, stmt),
                   !.err = IF fails THEN "driver" ELSE @]

Plan(table, conds, lim, off, sum) ==
    [table |-> table, columns |-> TableColumns(table), conds |-> conds,
     limit |-> lim, offset |-> off, sum |-> sum]

-----------------------------------------------------------------------------
(* Terminal fetch: executeWhereQuery *)

SumClause(f) == <<"SUM(" \o f.field \o ")", "AS", f.alias>>

OrderClause(o) == <<o.field, o.direction>>

\* a faulty variant of SelectSql in which the compiled clauses carry a WHERE keyword
\* of their own (as buildWhereClauses of src/src/BaseModel.ts returns them)
SelectSqlWhereTwice(self, w) ==
    <<"SELECT">>
    \o (IF Len(self.selectSumFields) > 0
        THEN JoinTokens([i \in 1..Len(self.selectSumFields) |->
                            SumClause(self.selectSumFields[i])], <<",">>)
        ELSE <<"*">>)
    \o <<"FROM", self.table>>
    \o (IF w.has THEN <<"WHERE", "WHERE">> \o w.sql ELSE <<>>)
    \o (IF Len(self.orderByConditions) > 0
        THEN <<"ORDER", "BY">>
             \o JoinTokens([i \in 1..Len(self.orderByConditions) |->
                               OrderClause(self.orderByConditions[i])], <<",">>)
        ELSE <<>>)
    \o (IF self._limit # null
        THEN <<"LIMIT", ToString(self._limit)>>
             \o (IF self.offset # null /\ self.offset > 0
                 THEN <<"OFFSET", ToString(self.offset)>> ELSE <<>>)
        ELSE <<>>)

\* the statement text executeWhereQuery builds from the pending state
SelectSql(self, w) ==
    <<"SELECT">>
    \o (IF Len(self.selectSumFields) > 0
        THEN JoinTokens([i \in 1..Len(self.selectSumFields) |->
                            SumClause(self.selectSumFields[i])], <<",">>)
        ELSE <<"*">>)
    \o <<"FROM", self.table>>
    \o (IF w.has THEN <<"WHERE">> \o w.sql ELSE <<>>)
    \o (IF Len(self.orderByConditions) > 0
        THEN <<"ORDER", "BY">>
             \o JoinTokens([i \in 1..Len(self.orderByConditions) |->
                               OrderClause(self.orderByConditions[i])], <<",">>)
        ELSE <<>>)
    \o (IF self._limit # null
        THEN <<"LIMIT", ToString(self._limit)>>
             \o (IF self.offset # null /\ self.offset > 0
                 THEN <<"OFFSET", ToString(self.offset)>> ELSE <<>>)
        ELSE <<>>)

\* the part of executeWhereQuery after buildWhereClauses returned w
ExecuteCompiled(self, io, w) ==
    \* selectSumFields is cleared while the SELECT list is built
    IF w.threw
    THEN [self |-> [self EXCEPT !.selectSumFields = <<>>],
          io |-> Throw(io, "TypeError"), rows |-> <<>>]
    ELSE [self |-> resetQuery(self)]
         @@ executeQuery(io, SelectSql(self, w), w.params,
                         Plan(self.table, self.whereConditions, self._limit,
                              self.offset, Len(self.selectSumFields) > 0))

\* executeWhereQuery: compile, reset, then await the driver.
\* Result: the instance afterwards, the i/o, the rows.
executeWhereQuery(self, io) == ExecuteCompiled(self, io, buildWhereClauses(self))

-----------------------------------------------------------------------------
(* Relation resolver *)

\* constructor.name.toLowerCase()
LowerName(e) ==
    CASE e = "User" -> "user"
      [] e = "Post" -> "post"
      [] e = "Comment" -> "comment"
      [] e = "Team" -> "team"
      [] e = "Role" -> "role"
      [] OTHER -> "profile"

\* a || b on key names ("" stands for an absent option)
OrElse(a, b) == IF a = "" THEN b ELSE a

\* the constraint functions used: each adds one filter to the relation's builder
ApplyConstraint(relationModel) == where(relationModel, "id", ">", 0)

\* Map.get after the loop `for (model of relatedModels) map.set(model[key], model)`:
\* the last row stored under k, or none
RECURSIVE MapLast(_, _, _)
MapLast(rows, key, k) ==
    IF rows = <<>> THEN <<>>
    ELSE LET rest == MapLast(Tail(rows), key, k)
         IN  IF rest # <<>> THEN rest
             ELSE IF Col(Head(rows), key) = k THEN <<Head(rows)>> ELSE <<>>

\* the rows grouped under k, in result order
RECURSIVE MapAll(_, _, _)
MapAll(rows, key, k) ==
    IF rows = <<>> THEN <<>>
    ELSE (IF Col(Head(rows), key) = k THEN <<Head(rows)>> ELSE <<>>)
         \o MapAll(Tail(rows), key, k)

\* values.filter((v, i, self) => v !== undefined && v !== null && self.indexOf(v) === i)
RECURSIVE DistinctNonNull(_, _)
DistinctNonNull(vals, seenVals) ==
    IF vals = <<>> THEN <<>>
    ELSE LET v == Head(vals)
         IN  IF v = null \/ v = undefined \/ v \in seenVals
             THEN DistinctNonNull(Tail(vals), seenVals)
             ELSE <<v>> \o DistinctNonNull(Tail(vals), seenVals \cup {v})

\* [...new Set(values)]
RECURSIVE Unique(_, _)
Unique(vals, seenVals) ==
    IF vals = <<>> THEN <<>>
    ELSE IF Head(vals) \in seenVals THEN Unique(Tail(vals), seenVals)
    ELSE <<Head(vals)>> \o Unique(Tail(vals), seenVals \cup {Head(vals)})

SetRel(row, relationName, v) == [row EXCEPT !.rel[relationName] = v]

RECURSIVE get(_, _, _)
RECURSIVE loadRelations(_, _, _, _, _, _)

\* the assignment loop of loadHasOneRelation / loadBelongsToRelation, g being what
\* the batch fetch gave: result[relationName] = relatedMap.get(result[parentKey]) || null
AssignOne(results, relationName, relatedKey, parentKey, g) ==
    IF g.io.err # "" THEN [rows |-> results, io |-> g.io]
    ELSE [rows |-> [i \in 1..Len(results) |->
                       SetRel(results[i], relationName,
                              IF MapLast(g.rows, relatedKey, Col(results[i], parentKey)) = <<>>
                              THEN RelNull
                              ELSE RelObject(MapLast(g.rows, relatedKey,
                                                     Col(results[i], parentKey))[1]))],
          io |-> g.io]

\* the assignment loop of loadHasManyRelation
AssignMany(results, relationName, foreignKey, localKey, g) ==
    IF g.io.err # "" THEN [rows |-> results, io |-> g.io]
    ELSE [rows |-> [i \in 1..Len(results) |->
                       SetRel(results[i], relationName,
                              RelArray(MapAll(g.rows, foreignKey, Col(results[i], localKey))))],
          io |-> g.io]

ColumnOf(results, key) == [i \in 1..Len(results) |-> Col(results[i], key)]

\* loadHasOneRelation
loadHasOneRelation(self, results, relationName, relation, relationModel, primaryKey, io) ==
    LET foreignKey == OrElse(relation.foreignKey, LowerName(self.name) \o "_id")
        localKey == OrElse(relation.localKey, primaryKey)
    IN  IF Len(results) = 0 THEN [rows |-> results, io |-> io]
        ELSE AssignOne(results, relationName, foreignKey, localKey,
                       get(whereIn(relationModel, foreignKey, ColumnOf(results, localKey)),
                           io, 0))

\* loadHasManyRelation
loadHasManyRelation(self, results, relationName, relation, relationModel, primaryKey, io) ==
    LET foreignKey == OrElse(relation.foreignKey, LowerName(self.name) \o "_id")
        localKey == OrElse(relation.localKey, primaryKey)
    IN  IF Len(results) = 0 THEN [rows |-> results, io |-> io]
        ELSE AssignMany(results, relationName, foreignKey, localKey,
                        get(whereIn(relationModel, foreignKey, ColumnOf(results, localKey)),
                            io, 0))

\* a faulty variant of BelongsToFetch that queries even for an empty key list
BelongsToFetchAlways(results, relationName, relationModel, foreignKey, ownerKey, foreignKeys, io) ==
    AssignOne(results, relationName, ownerKey, foreignKey,
              get(whereIn(relationModel, ownerKey, foreignKeys), io, 0))

\* the part of loadBelongsToRelation after the foreign keys were collected
BelongsToFetch(results, relationName, relationModel, foreignKey, ownerKey, foreignKeys, io) ==
    IF Len(foreignKeys) = 0 THEN [rows |-> results, io |-> io]
    ELSE AssignOne(results, relationName, ownerKey, foreignKey,
                   get(whereIn(relationModel, ownerKey, foreignKeys), io, 0))

\* loadBelongsToRelation
loadBelongsToRelation(self, results, relationName, relation, relationModel, io) ==
    LET foreignKey == OrElse(relation.foreignKey, LowerName(relation.model) \o "_id")
        ownerKey == OrElse(relation.localKey, relationModel.primaryKey)
    IN  BelongsToFetch(results, relationName, relationModel, foreignKey, ownerKey,
                       DistinctNonNull(ColumnOf(results, foreignKey), {}), io)

\* relatedIds.map((id) => relatedModelsMap.get(id)).filter((model) => model !== undefined)
RECURSIVE MapThrough(_, _, _)
MapThrough(ids, models, key) ==
    IF ids = <<>> THEN <<>>
    ELSE MapLast(models, key, Head(ids)) \o MapThrough(Tail(ids), models, key)

\* a faulty variant of RelatedIdsOf that hands every parent the related ids of all
\* the pivot rows
RelatedIdsOfAnyParent(pivotRows, currentForeignKey, relatedKey, k) ==
    ColumnOf(pivotRows, relatedKey)

\* relatedIdsMap.get(k) || []: the related ids of the pivot rows of parent k
RelatedIdsOf(pivotRows, currentForeignKey, relatedKey, k) ==
    ColumnOf(MapAll(pivotRows, currentForeignKey, k), relatedKey)

\* the assignment loop of loadBelongsToManyRelation, g being the target fetch
AssignThrough(results, relationName, primaryKey, pivotRows, currentForeignKey, relatedKey, targetKey, g) ==
    IF g.io.err # "" THEN [rows |-> results, io |-> g.io]
    ELSE [rows |-> [i \in 1..Len(results) |->
                       SetRel(results[i], relationName,
                              RelArray(MapThrough(
                                  RelatedIdsOf(pivotRows, currentForeignKey, relatedKey,
                                               Col(results[i], primaryKey)),
                                  g.rows, targetKey)))],
          io |-> g.io]

\* the part of loadBelongsToManyRelation after the pivot query answered pv
ThroughPivot(results, relationName, relationModel, primaryKey, currentForeignKey, relatedKey, pv) ==
    IF pv.io.err # "" THEN [rows |-> results, io |-> pv.io]
    ELSE IF Len(pv.rows) = 0
    THEN [rows |-> [i \in 1..Len(results) |->
                       SetRel(results[i], relationName, RelArray(<<>>))],
          io |-> pv.io]
    ELSE AssignThrough(results, relationName, primaryKey, pv.rows, currentForeignKey,
                       relatedKey, relationModel.primaryKey,
                       get(whereIn(relationModel, relationModel.primaryKey,
                                   Unique(ColumnOf(pv.rows, relatedKey), {})),
                           pv.io, 0))

\* loadBelongsToManyRelation
loadBelongsToManyRelation(self, results, relationName, relation, relationModel, primaryKey, io) ==
    LET pivotTable == OrElse(relation.pivotTable,
                             LowerName(self.name) \o "_" \o LowerName(relation.model))
        currentForeignKey == OrElse(relation.foreignKey, LowerName(self.name) \o "_id")
        relatedKey == OrElse(relation.relatedKey, LowerName(relation.model) \o "_id")
        parentIds == ColumnOf(results, primaryKey)
        pivotQuery == <<"SELECT", currentForeignKey, ",", relatedKey, "FROM", pivotTable,
                        "WHERE", currentForeignKey, "IN", "(">>
                      \o Placeholders(Len(results)) \o <<")">>
    IN  IF Len(results) = 0 THEN [rows |-> results, io |-> io]
        ELSE ThroughPivot(results, relationName, relationModel, primaryKey,
                          currentForeignKey, relatedKey,
                          executeQuery(io, pivotQuery, parentIds,
                              Plan(pivotTable,
                                   <<Cond(currentForeignKey, "IN", parentIds, "AND", 0)>>,
                                   null, null, FALSE)))

\* the values gathered from parents[k][immediateRelation] by the reduce() of
\* loadRelations: arrays are spread, other truthy values pushed, the rest skipped
NestedOf(v) == IF v.kind \in {"array", "object"} THEN v.rows ELSE <<>>

\* The nested parents are the very objects attached to the parents, so what the
\* recursive call attaches to them shows on the parents: put the updated objects
\* back in the places they were gathered from.
RECURSIVE PutBack(_, _, _)
PutBack(parents, immediateRelation, updated) ==
    IF parents = <<>> THEN <<>>
    ELSE LET p == Head(parents)
             n == Len(NestedOf(p.rel[immediateRelation]))
         IN  <<[p EXCEPT !.rel[immediateRelation].rows = SubSeq(updated, 1, n)]>>
             \o PutBack(Tail(parents), immediateRelation,
                        SubSeq(updated, n + 1, Len(updated)))

\* the nested parents of loadRelations, gathered across all parents
NestedParents(rows, immediateRelation) ==
    FlatConcat([k \in 1..Len(rows) |-> NestedOf(rows[k].rel[immediateRelation])])

\* the rows after the recursive call r on the nested parents
Grafted(rows, immediateRelation, r) ==
    [rows |-> PutBack(rows, immediateRelation, r.rows), io |-> r.io]

\* a faulty variant of LoadNested that never descends into a dotted path
LoadNestedNever(self, eagerLoad, currentRelationPath, relationParts, loaded) == loaded

\* "Process nested relations": loaded is what loading the immediate relation gave
LoadNested(self, eagerLoad, currentRelationPath, relationParts, loaded) ==
    IF loaded.io.err = "" /\ Len(relationParts) > 1
       /\ Len(NestedParents(loaded.rows, relationParts[1])) > 0
    THEN Grafted(loaded.rows, relationParts[1],
                 loadRelations(self, NestedParents(loaded.rows, relationParts[1]),
                               [relations |-> <<Tail(relationParts)>>,
                                constraints |-> eagerLoad.constraints,
                                currentDepth |-> eagerLoad.currentDepth + 1,
                                maxDepth |-> eagerLoad.maxDepth],
                               currentRelationPath \o <<relationParts[1]>>,
                               {}, loaded.io))
    ELSE loaded

\* "Load relation based on type"
LoadImmediate(self, parents, immediateRelation, relation, relationModel, io) ==
    CASE relation.type = "hasOne" ->
           loadHasOneRelation(self, parents, immediateRelation, relation,
                              relationModel, self.primaryKey, io)
      [] relation.type = "hasMany" ->
           loadHasManyRelation(self, parents, immediateRelation, relation,
                               relationModel, self.primaryKey, io)
      [] relation.type = "belongsTo" ->
           loadBelongsToRelation(self, parents, immediateRelation, relation,
                                 relationModel, io)
      [] relation.type = "belongsToMany" ->
           loadBelongsToManyRelation(self, parents, immediateRelation, relation,
                                     relationModel, self.primaryKey, io)
      [] OTHER -> [rows |-> parents, io |-> io]

\* new relation.model(), with the constraint registered under fullPath applied
RelationModel(relation, eagerLoad, fullPath) ==
    IF fullPath \in eagerLoad.constraints
    THEN ApplyConstraint(NewModel(relation.model))
    ELSE NewModel(relation.model)

RECURSIVE LoadLoop(_, _, _, _, _, _)

\* the remaining iterations, after one gave `done`
LoadRest(self, eagerLoad, currentRelationPath, i, done) ==
    LoadLoop(self, done.rows, eagerLoad, currentRelationPath, i, done.io)

\* the i-th iteration of `for (const relationName of eagerLoad.relations)`, and the rest
LoadLoop(self, parents, eagerLoad, currentRelationPath, i, io) ==
    IF i > Len(eagerLoad.relations) \/ io.err # "" THEN [rows |-> parents, io |-> io]
    ELSE
    LET relationName == eagerLoad.relations[i]
        fullPath == currentRelationPath \o relationName
        relationParts == relationName
        immediateRelation == relationParts[1]
    IN  IF immediateRelation \notin DOMAIN relations
        THEN [rows |-> parents, io |-> Throw(io, "Error")]
        ELSE LoadRest(self, eagerLoad, currentRelationPath, i + 1,
                 LoadNested(self, eagerLoad, currentRelationPath, relationParts,
                     LoadImmediate(self, parents, immediateRelation,
                         relations[immediateRelation],
                         RelationModel(relations[immediateRelation], eagerLoad, fullPath),
                         io)))

\* loadRelations(parents, eagerLoad, currentRelationPath = [], seen = new Set()).
\* relationKey is the parents' ids joined by "," + "|" + the relation names joined
\* by ","; it is modelled as the pair of the two lists.
loadRelations(self, parents, eagerLoad, currentRelationPath, seen, io) ==
    LET relationKey == <<[i \in 1..Len(parents) |-> Col(parents[i], self.primaryKey)],
                         eagerLoad.relations>>
    IN  IF relationKey \in seen THEN [rows |-> parents, io |-> io]
        ELSE IF eagerLoad.currentDepth >= eagerLoad.maxDepth
        THEN [rows |-> parents, io |-> io]
        ELSE LoadLoop(self, parents, eagerLoad, currentRelationPath, 1, io)

\* processEagerLoad(results); every caller passes a fresh `seen`
processEagerLoad(self, results, io) ==
    IF Len(results) = 0 THEN [rows |-> results, io |-> io]
    ELSE loadRelations(self, results, self._eagerLoad, <<>>, {}, io)

\* rows c followed by the rows of the remaining chunks
ChunkJoin(c, rest) == [rows |-> c.rows \o rest.rows, io |-> rest.io]

RECURSIVE LoadChunks(_, _, _, _)

\* the chunks after the first, which gave c
ChunkRest(self, results, chunkSize, n, c) ==
    ChunkJoin(c, LoadChunks(self, SubSeq(results, n + 1, Len(results)), chunkSize, c.io))

\* get({chunkSize}) with more rows than chunkSize: eager loading chunk by chunk
LoadChunks(self, results, chunkSize, io) ==
    IF results = <<>> \/ io.err # "" THEN [rows |-> results, io |-> io]
    ELSE LET n == IF chunkSize < Len(results) THEN chunkSize ELSE Len(results)
         IN  ChunkRest(self, results, chunkSize, n,
                       processEagerLoad(self, SubSeq(results, 1, n), io))

\* the result of a fetch on the instance self whose eager loading gave e
Fetched(self, e) == [self |-> self, io |-> e.io, rows |-> e.rows]

\* the part of get() after executeWhereQuery gave q
GetLoad(q, chunkSize) ==
    IF q.io.err # "" THEN [self |-> q.self, io |-> q.io, rows |-> <<>>]
    ELSE Fetched(q.self, IF chunkSize > 0 /\ Len(q.rows) > chunkSize
                         THEN LoadChunks(q.self, q.rows, chunkSize, q.io)
                         ELSE processEagerLoad(q.self, q.rows, q.io))

\* get(options); chunkSize 0 stands for no option
get(self, io, chunkSize) == GetLoad(executeWhereQuery(self, io), chunkSize)

\* the part of first() after executeWhereQuery gave q
FirstLoad(q) ==
    IF q.io.err # "" \/ Len(q.rows) = 0
    THEN [self |-> q.self, io |-> q.io, rows |-> <<>>]
    ELSE Fetched(q.self, processEagerLoad(q.self, <<q.rows[1]>>, q.io))

\* first()
first(self, io) == FirstLoad(executeWhereQuery(limit(self, 1, 0), io))

\* get() / first() up to the point where it suspends: executeWhereQuery runs
\* synchronously through buildWhereClauses and resetQuery and hands the statement
\* to the driver.  Result: the instance as the call leaves it, and q.io / q.rows,
\* the statement in flight and what the driver will settle it with.
Suspended(op, self, io) ==
    executeWhereQuery(IF op = "first" THEN limit(self, 1, 0) ELSE self, io)

\* a faulty variant of Resumed that resets the builder state after the await
ResumedResetting(op, self, q, chunkSize) ==
    IF op = "first" THEN FirstLoad([q EXCEPT !.self = resetQuery(self)])
    ELSE GetLoad([q EXCEPT !.self = resetQuery(self)], chunkSize)

\* get() / first() from the point where the driver settles the statement q; self is
\* the instance as it is by then
Resumed(op, self, q, chunkSize) ==
    IF op = "first" THEN FirstLoad([q EXCEPT !.self = self])
    ELSE GetLoad([q EXCEPT !.self = self], chunkSize)

\* the result of countAllResults once the driver answered q
Counted(q) == [io |-> q.io, total |-> IF q.io.err = "" THEN q.rows[1].cols.sum ELSE 0]

\* a faulty variant of CountCompiled that counts the whole table
CountCompiledUnrestricted(self, io, w) ==
    IF w.threw THEN [io |-> Throw(io, "TypeError"), total |-> 0]
    ELSE Counted(executeQuery(io,
                     <<"SELECT", "COUNT(*)", "AS", "count", "FROM", self.table>>,
                     <<>>,
                     Plan(self.table, <<>>, null, null, TRUE)))

\* the part of countAllResults after buildWhereClauses returned w
CountCompiled(self, io, w) ==
    IF w.threw THEN [io |-> Throw(io, "TypeError"), total |-> 0]
    ELSE Counted(executeQuery(io,
                     <<"SELECT", "COUNT(*)", "AS", "count", "FROM", self.table>>
                         \o (IF w.has THEN <<"WHERE">> \o w.sql ELSE <<>>),
                     w.params,
                     Plan(self.table, self.whereConditions, null, null, TRUE)))

\* countAllResults(): the COUNT statement over the pending conditions
countAllResults(self, io) == CountCompiled(self, io, buildWhereClauses(self))

\* the part of paginate after countAllResults gave c
PaginateFetch(self, perPage, currentPage, c) ==
    IF c.io.err # ""
    THEN [self |-> self, io |-> c.io, rows |-> <<>>, total |-> 0, lastPage |-> 0]
    ELSE [total |-> c.total,
          \* Math.ceil(total / perPage)
          lastPage |-> (c.total + perPage - 1) \div perPage]
         @@ get(limit(self, perPage, (currentPage - 1) * perPage), c.io, 0)

\* paginate(perPage, currentPage)
paginate(self, io, perPage, currentPage) ==
    PaginateFetch(self, perPage, currentPage, countAllResults(self, io))

\* count(conditions = {}): conditions is the argument, a list of [field, value]
count(self, io, conditions) ==
    LET sql == <<"SELECT", "COUNT(*)", "as", "total", "FROM", self.table>>
               \o (IF Len(conditions) > 0
                   THEN <<"WHERE">> \o JoinTokens([i \in 1..Len(conditions) |->
                                           <<conditions[i].field, "=", "?">>], <<"AND">>)
                   ELSE <<>>)
        params == [i \in 1..Len(conditions) |-> conditions[i].value]
        conds == [i \in 1..Len(conditions) |->
                     Cond(conditions[i].field, "=", <<conditions[i].value>>, "AND", 0)]
    IN  [self |-> self,
         io |-> executeQuery(io, sql, params, Plan(self.table, conds, null, null, TRUE)).io]

-----------------------------------------------------------------------------
(* Persistence operations.  data is the list of [field, value] of the argument *)
(* object, in key order; id is [kind |-> "none" | "scalar" | "array", v].      *)

NoId == [kind |-> "none", v |-> <<>>]
ScalarId(x) == [kind |-> "scalar", v |-> <<x>>]
ArrayId(xs) == [kind |-> "array", v |-> xs]

Now == 99

\* data[key] = value
SetKey(data, key, value) ==
    IF \E i \in 1..Len(data) : data[i].field = key
    THEN [i \in 1..Len(data) |-> IF data[i].field = key
                                 THEN [field |-> key, value |-> value] ELSE data[i]]
    ELSE Append(data, [field |-> key, value |-> value])

setTimestamps(data, isUpdate) ==
    IF ~config.timestamps THEN data
    ELSE LET d1 == IF ~isUpdate /\ config.createdAt # ""
                   THEN SetKey(data, config.createdAt, Now) ELSE data
         IN  IF config.updatedAt # "" THEN SetKey(d1, config.updatedAt, Now) ELSE d1

RECURSIVE filterAllowedFields(_, _)
filterAllowedFields(self, data) ==
    IF data = <<>> THEN <<>>
    ELSE (IF Head(data).field \in SeqRange(self.allowedFields) THEN <<Head(data)>> ELSE <<>>)
         \o filterAllowedFields(self, Tail(data))

\* the WHERE part both update and delete derive from the id argument
IdWhere(keyColumn, id) ==
    CASE id.kind = "array" ->
           [parts |-> <<<<keyColumn, "IN", "(">> \o Placeholders(Len(id.v)) \o <<")">>>>,
            values |-> id.v]
      [] id.kind = "scalar" ->
           [parts |-> <<<<keyColumn, "=", "?">>>>, values |-> id.v]
      [] OTHER -> [parts |-> <<>>, values |-> <<>>]

\* a faulty variant of NoRestriction that lets every statement through
NoRestrictionIgnored(whereParts) == FALSE

\* if (whereParts.length === 0) throw: the refusal of update and of delete
NoRestriction(whereParts) == Len(whereParts) = 0

\* what follows the statement of update / delete: when the driver accepted it the
\* after-hook runs, and may throw
AfterHook(x, hook, hookFail) ==
    IF x.err # "" THEN x
    ELSE IF hookFail = hook THEN Throw(Called(x, hook), "hook")
    ELSE Called(x, hook)

\* update(id, data, column) and update(data); hookFail names the hook that throws
update(self, io, id, data, column, hookFail) ==
    IF hookFail = "validate" THEN Throw(Called(io, "validate"), "hook")
    ELSE IF hookFail = "beforeUpdate"
    THEN Throw(Called(Called(io, "validate"), "beforeUpdate"), "hook")
    ELSE
    LET io3 == Called(Called(Called(io, "validate"), "beforeUpdate"), "setTimestamps")
        stamped == setTimestamps(data, TRUE)
        keyColumn == OrElse(column, self.primaryKey)
        filteredData == filterAllowedFields(self, stamped)
        setClause == JoinTokens([i \in 1..Len(filteredData) |->
                                    <<filteredData[i].field, "=", "?">>], <<",">>)
        values == [i \in 1..Len(filteredData) |-> filteredData[i].value]
        byId == IdWhere(keyColumn, id)
        queryBuilderWhere == buildWhereClauses(self)
        whereParts == byId.parts
                      \o (IF queryBuilderWhere.has THEN <<queryBuilderWhere.sql>> ELSE <<>>)
        whereValues == byId.values \o queryBuilderWhere.params
        sql == <<"UPDATE", self.table, "SET">> \o setClause
               \o <<"WHERE">> \o JoinTokens(whereParts, <<"AND">>)
    IN  IF id.kind = "array" /\ Len(id.v) = 0 THEN Throw(io3, "Error")
        ELSE IF queryBuilderWhere.threw THEN Throw(io3, "TypeError")
        ELSE IF NoRestriction(whereParts) THEN Throw(io3, "Error")
        ELSE AfterHook(executeUpdate(io3, sql, values \o whereValues),
                       "afterUpdate", hookFail)

\* delete(id, column) and delete(); hookFail names the hook that throws
delete(self, io, id, column, hookFail) ==
    IF hookFail = "beforeDelete" THEN Throw(Called(io, "beforeDelete"), "hook")
    ELSE
    LET io1 == Called(io, "beforeDelete")
        keyColumn == OrElse(column, self.primaryKey)
        byId == IdWhere(keyColumn, id)
        queryBuilderWhere == buildWhereClauses(self)
        whereParts == byId.parts
                      \o (IF queryBuilderWhere.has THEN <<queryBuilderWhere.sql>> ELSE <<>>)
        whereValues == byId.values \o queryBuilderWhere.params
        sql == <<"DELETE", "FROM", self.table, "WHERE">> \o JoinTokens(whereParts, <<"AND">>)
    IN  IF id.kind # "none" /\ keyColumn \notin SeqRange(self.allowedFields)
        THEN Throw(io1, "Error")
        ELSE IF id.kind = "array" /\ Len(id.v) = 0 THEN Throw(io1, "Error")
        ELSE IF queryBuilderWhere.threw THEN Throw(io1, "TypeError")
        ELSE IF NoRestriction(whereParts) THEN Throw(io1, "Error")
        ELSE AfterHook(executeQuery(io1, sql, whereValues,
                                    Plan(self.table, <<>>, null, null, FALSE)).io,
                       "afterDelete", hookFail)

\* insert(data); hookFail names the hook that throws
insert(self, io, data, hookFail) ==
    IF hookFail = "validate" THEN Throw(Called(io, "validate"), "hook")
    ELSE IF hookFail = "beforeCreate"
    THEN Throw(Called(Called(io, "validate"), "beforeCreate"), "hook")
    ELSE
    LET io3 == Called(Called(Called(io, "validate"), "beforeCreate"), "setTimestamps")
        filteredData == filterAllowedFields(self, setTimestamps(data, FALSE))
        columns == JoinTokens([i \in 1..Len(filteredData) |-> <<filteredData[i].field>>],
                              <<",">>)
        values == [i \in 1..Len(filteredData) |-> filteredData[i].value]
        sql == <<"INSERT", "INTO", self.table, "(">> \o columns
               \o <<")", "VALUES", "(">> \o Placeholders(Len(filteredData)) \o <<")">>
    IN  IF hookFail = "afterCreate" THEN Throw(Called(io3, "afterCreate"), "hook")
        ELSE executeUpdate(Called(io3, "afterCreate"), sql, values)

-----------------------------------------------------------------------------
(* Soft deletes.  key is this[this.primaryKey], undefined when the instance has *)
(* no such property.                                                           *)

\* a faulty variant of softDelete that does not look at the softDeletes flag
softDeleteUnguarded(self, io, key, hookFail) ==
    update(self, io, ScalarId(key), <<[field |-> config.deletedAt, value |-> Now]>>,
           "", hookFail)

softDelete(self, io, key, hookFail) ==
    IF ~config.softDeletes THEN Throw(io, "Error")
    ELSE IF config.deletedAt = "" THEN Throw(io, "Error")
    ELSE update(self, io, ScalarId(key), <<[field |-> config.deletedAt, value |-> Now]>>,
                "", hookFail)

restore(self, io, key, hookFail) ==
    IF ~config.softDeletes THEN Throw(io, "Error")
    ELSE IF config.deletedAt = "" THEN Throw(io, "Error")
    ELSE update(self, io, ScalarId(key), <<[field |-> config.deletedAt, value |-> null]>>,
                "", hookFail)

\* onlyTrashed: [ok |-> FALSE] when it throws
onlyTrashed(self) ==
    IF ~config.softDeletes THEN [ok |-> FALSE, self |-> self]
    ELSE IF config.deletedAt = "" THEN [ok |-> FALSE, self |-> self]
    ELSE [ok |-> TRUE, self |-> whereNotNull(self, config.deletedAt)]

-----------------------------------------------------------------------------
(* Transactions: BaseModel.transaction over the connection adapter *)

\* whether a call on the adapter rejects: the driver fails it (fail), or the
\* SQLite handle was closed by an earlier release()
Rejects(c, call, fail) == call \in fail \/ (c.client = "sqlite" /\ ~c.open)

\* pooled connections a MysqlAdapter call leaves checked out: beginTransaction never
\* releases its connection; commit and rollback release theirs only when they resolve
Leaks(c, call, fail) ==
    IF c.client = "mysql" /\ (call = "beginTransaction" \/ Rejects(c, call, fail))
    THEN 1 ELSE 0

\* the try block: [log, error], error = "" when it ran to its end
TryBlock(c, callback, fail) ==
    LET begun == <<"beginTransaction">>
        inCallback == begun \o [i \in 1..callback.statements |-> "query"]
    IN  IF Rejects(c, "beginTransaction", fail)
        THEN [log |-> begun, error |-> "beginTransaction"]
        ELSE IF callback.statements > 0 /\ Rejects(c, "query", fail)
        THEN [log |-> begun \o <<"query">>, error |-> "callback"]
        ELSE IF callback.throws
        THEN [log |-> inCallback, error |-> "callback"]
        ELSE IF Rejects(c, "commit", fail)
        THEN [log |-> Append(inCallback, "commit"), error |-> "commit"]
        ELSE [log |-> Append(inCallback, "commit"), error |-> ""]

\* the catch block after the try block ended as tried
CatchBlock(c, fail, tried) ==
    IF tried.error = "" THEN tried
    ELSE [log |-> Append(tried.log, "rollback"),
          error |-> IF Rejects(c, "rollback", fail) THEN "rollback" ELSE tried.error]

\* the finally block, and what the caller is left with
FinallyBlock(c, fail, tried, caught) ==
    [c EXCEPT !.log = Append(caught.log, "release"),
              !.fail = fail,
              !.thrown = tried.error,
              !.received = caught.error,
              !.held = @ + Leaks(c, "beginTransaction", fail)
                         + (IF "commit" \in SeqRange(caught.log)
                            THEN Leaks(c, "commit", fail) ELSE 0)
                         + (IF "rollback" \in SeqRange(caught.log)
                            THEN Leaks(c, "rollback", fail) ELSE 0),
              !.open = IF c.client = "sqlite" THEN FALSE ELSE @]

Caught(c, fail, tried) == FinallyBlock(c, fail, tried, CatchBlock(c, fail, tried))

\* static transaction(callback).  callback = [statements, throws]: the statements
\* it awaits on the connection, and whether it then throws an error of its own.
\* log is the sequence of calls made on the adapter; thrown is the error that
\* ended the try block; received is the error the caller gets ("" for none);
\* callback and fail record the call's argument and the calls the driver failed.
transaction(c, callback, fail) ==
    Caught([c EXCEPT !.callback = callback], fail, TryBlock(c, callback, fail))

\* this.pool.getConnection(): a connection of the pool that is not checked out;
\* out is the set of connections checked out, pick tells which of the others the
\* pool hands over
getConnection(out, pick) ==
    LET free == (1..PoolSize) \ out
    IN  CHOOSE x \in free :
            Cardinality({y \in free : y < x}) = (pick - 1) % Cardinality(free)

\* the connection each call of log runs on, and the connections checked out
\* afterwards.  Every MysqlAdapter call takes a connection of its own from the pool
\* (query, commit and rollback give theirs back, commit and rollback only when they
\* resolve); the SqliteAdapter calls all run on the one handle this.db; release()
\* itself takes no pooled connection (0).
RECURSIVE RunOn(_, _, _, _, _, _)
RunOn(c, log, fail, picks, out, on) ==
    IF Len(on) = Len(log) THEN [on |-> on, out |-> out]
    ELSE LET call == log[Len(on) + 1]
             id == getConnection(out, picks[Len(on) + 1])
         IN  IF call = "release" THEN RunOn(c, log, fail, picks, out, Append(on, 0))
             ELSE IF c.client = "sqlite" THEN RunOn(c, log, fail, picks, out, Append(on, 1))
             ELSE RunOn(c, log, fail, picks,
                        IF call # "query" /\ Leaks(c, call, fail) = 1
                        THEN out \cup {id} ELSE out,
                        Append(on, id))

\* the adapter c after a transaction() call left it as t, with the connections
\* its calls ran on
Pooled(c, t, picks) ==
    [t EXCEPT !.on = RunOn(c, t.log, t.fail, picks, c.out, <<>>).on,
              !.out = RunOn(c, t.log, t.fail, picks, c.out, <<>>).out]

\* on: the pooled connection each call of log ran on; out: the pooled connections
\* checked out and never released
NewConnection(client) ==
    [client |-> client, open |-> TRUE, held |-> 0, log |-> <<>>, thrown |-> "",
     received |-> "", callback |-> [statements |-> 0, throws |-> FALSE], fail |-> {},
     on |-> <<>>, out |-> {}]

-----------------------------------------------------------------------------
(* Fixtures: the registry and the database contents *)

Relation(type, model, foreignKey, localKey, pivotTable, relatedKey) ==
    [type |-> type, model |-> model, foreignKey |-> foreignKey, localKey |-> localKey,
     pivotTable |-> pivotTable, relatedKey |-> relatedKey]

\* static hasOne / hasMany / belongsTo / belongsToMany: `this.relations` is the one
\* object BaseModel.relations whichever class calls them; reg is that object, and
\* what is returned is the object after this.relations[as || model.name] = {...}
hasOne(reg, model, foreignKey, localKey, as) ==
    (OrElse(as, model) :> Relation("hasOne", model, foreignKey, localKey, "", "")) @@ reg

hasMany(reg, model, foreignKey, localKey, as) ==
    (OrElse(as, model) :> Relation("hasMany", model, foreignKey, localKey, "", "")) @@ reg

belongsTo(reg, model, foreignKey, ownerKey, as) ==
    (OrElse(as, model) :> Relation("belongsTo", model, foreignKey, ownerKey, "", "")) @@ reg

belongsToMany(reg, model, foreignKey, pivotTable, relatedKey, as) ==
    (OrElse(as, model) :> Relation("belongsToMany", model, foreignKey, "", pivotTable,
                                   relatedKey)) @@ reg

\* the (class, relation name) pairs of the registrations that gave Registry
Declared ==
    {<<"User", "posts">>, <<"Post", "comments">>, <<"User", "profile">>,
     <<"User", "team">>, <<"User", "roles">>}

\* BaseModel.relations after the models' static blocks ran
Registry ==
    [r \in RelationNames |->
        CASE r = "posts" -> Relation("hasMany", "Post", "user_id", "", "", "")
          [] r = "comments" -> Relation("hasMany", "Comment", "post_id", "", "", "")
          [] r = "profile" -> Relation("hasOne", "Profile", "", "", "", "")
          [] r = "team" -> Relation("belongsTo", "Team", "", "", "", "")
          [] OTHER -> Relation("belongsToMany", "Role", "", "", "", "")]

\* n users with the given team ids, two posts per user, one comment per post;
\* user 1 has two profiles; role 9 of user 2 has no row
Database(n, teamOf, pivot) ==
    [users |-> [i \in 1..n |-> [id |-> i, status |-> 1, age |-> 20, team_id |-> teamOf[i]]],
     posts |-> [i \in 1..(2 * n) |-> [id |-> i, user_id |-> (i + 1) \div 2]],
     comments |-> [i \in 1..(2 * n) |-> [id |-> i, post_id |-> i]],
     profiles |-> <<[id |-> 1, user_id |-> 1], [id |-> 2, user_id |-> 1]>>,
     teams |-> <<[id |-> 1]>>,
     roles |-> <<[id |-> 1], [id |-> 2]>>,
     user_role |-> IF pivot
                   THEN <<[user_id |-> 1, role_id |-> 1], [user_id |-> 1, role_id |-> 2],
                          [user_id |-> 2, role_id |-> 9]>>
                   ELSE <<>>]

DefaultConfig ==
    [timestamps |-> TRUE, softDeletes |-> FALSE, createdAt |-> "created_at",
     updatedAt |-> "updated_at", deletedAt |-> "deleted_at"]

-----------------------------------------------------------------------------
(* State machine *)

\* how the most recent call ended.  fresh: a with() request was stored and no
\* terminal fetch has run since; hadFresh: the value of fresh when the call started;
\* chunk, id: the chunkSize / id (whereRaw: sql) argument of the call; total: the
\* count it returned;
\* calls: the validate / hook / setTimestamps calls it made; lastPage: the lastPage
\* that paginate returned; depth: the maxDepth option of the latest with() call;
\* declared: which class registered which relation name so far
EndedOn(op, io, fresh, chunk, total, id) ==
    [op |-> op,
     outcome |-> IF io.err = "" THEN "returned" ELSE "threw",
     error |-> io.err,
     fresh |-> fresh,
     hadFresh |-> last.fresh,
     chunk |-> chunk,
     total |-> total,
     id |-> id,
     calls |-> io.calls,
     lastPage |-> 0,
     depth |-> last.depth,
     declared |-> last.declared]

Ended(op, io, fresh, chunk, total) == EndedOn(op, io, fresh, chunk, total, NoId)

\* number of conditions the fluent calls have left pending on the instance
Pending(self) ==
    Len(self.whereConditions) + Len(self.whereOrConditions) + Len(self.whereConditionsRaw)
    + Len(self.whereGroupConditions) + Len(self.selectSumFields)

Room == Pending(m) < MaxPending

\* a fluent call that returned the instance self2
Fluent(op, self2) ==
    /\ m' = self2
    /\ sent' = <<>>
    /\ result' = <<>>
    /\ last' = Ended(op, NewIO(0), last.fresh, 0, 0)
    /\ UNCHANGED <<relations, db, config, conn>>

\* a fluent call that threw
FluentThrew(op) ==
    /\ m' = m
    /\ sent' = <<>>
    /\ result' = <<>>
    /\ last' = Ended(op, Throw(NewIO(0), "Error"), last.fresh, 0, 0)
    /\ UNCHANGED <<relations, db, config, conn>>

WhereArgs == {<<"status", "=", 1>>, <<"age", ">", 18>>, <<"team_id", "=", null>>}

Where == Room /\ \E a \in WhereArgs : Fluent("where", where(m, a[1], a[2], a[3]))

WhereInArgs == {<<>>, <<1, 2>>}

WhereIn == Room /\ \E vs \in WhereInArgs : Fluent("whereIn", whereIn(m, "id", vs))

WhereBetween == Room /\ Fluent("whereBetween", whereBetween(m, "age", <<18, 30>>))

WhereNull == Room /\ Fluent("whereNull", whereNull(m, "team_id"))

WhereNotNull == Room /\ Fluent("whereNotNull", whereNotNull(m, "team_id"))

RawArgs == {[sql |-> <<"age", "<", "?">>, params |-> <<65>>],
            [sql |-> <<"secret", "=", "?">>, params |-> <<1>>],
            [sql |-> <<"updated_at", "<", "?">>, params |-> <<1>>],
            [sql |-> <<"id", "=", "1", ";", "drop", "table">>, params |-> <<>>],
            [sql |-> <<"DROP", "TABLE">>, params |-> <<>>]}

\* whereRaw(sql, params) ended as r; the fragment passed is kept as the call's argument
RawEnded(r, sql) ==
    /\ m' = r.self
    /\ sent' = <<>>
    /\ result' = <<>>
    /\ last' = EndedOn("whereRaw", IF r.ok THEN NewIO(0) ELSE Throw(NewIO(0), "Error"),
                       last.fresh, 0, 0, [kind |-> "sql", v |-> sql])
    /\ UNCHANGED <<relations, db, config, conn>>

WhereRaw == Room /\ \E a \in RawArgs : RawEnded(whereRaw(m, a.sql, a.params), a.sql)

OrEnded(r) == IF r.ok THEN Fluent("orWhere", r.self) ELSE FluentThrew("orWhere")

OrWhere == Room /\ \E v \in {2, null} : OrEnded(orWhere(m, "status", v, "="))

GroupStart ==
    /\ m.whereGroupLevel < MaxGroupLevel
    /\ Fluent("groupStart", groupStart(m))

GroupEnd == Fluent("groupEnd", groupEnd(m))

Callbacks ==
    {<<>>,
     <<Call("where", "status", "=", <<1>>, <<>>),
       Call("whereGroup", "", "", <<>>, <<Call("where", "age", ">", <<18>>, <<>>)>>)>>}

WhereGroup == Room /\ \E cb \in Callbacks : Fluent("whereGroup", whereGroup(m, cb))

OrWhereGroup == Room /\ \E cb \in Callbacks : Fluent("orWhereGroup", orWhereGroup(m, cb))

OrderBy ==
    /\ Len(m.orderByConditions) < MaxOrder
    /\ \E a \in {<<"age", "DESC">>, <<"id", "">>} : Fluent("orderBy", orderBy(m, a[1], a[2]))

Limit == \E a \in {<<10, 5>>, <<10, 0>>} : Fluent("limit", limit(m, a[1], a[2]))

SelectSum == Room /\ Fluent("selectSum", selectSum(m, "age", ""))

WithArgs ==
    {<<<<"posts">>>>, <<<<"profile">>>>, <<<<"team">>>>, <<<<"roles">>>>,
     <<<<"posts", "comments">>>>, <<<<"team">>, <<"posts">>>>,
     <<<<"bogus">>>>, <<<<"posts">>, <<"bogus">>>>, <<<<"posts", "bogus">>>>}

With ==
    \E rels \in WithArgs :
        /\ m' = with(m, rels, {}, undefined)
        /\ sent' = <<>>
        /\ result' = <<>>
        /\ last' = Ended("with", NewIO(0), TRUE, 0, 0)
        /\ UNCHANGED <<relations, db, config, conn>>

\* with(relations, {maxDepth}); undefined stands for no option
WithDepth ==
    \E maxDepth \in {undefined} \cup (0..MaxDepthOption) :
        \E rels \in {<<<<"posts">>>>, <<<<"posts", "comments">>>>,
                     <<<<"posts", "comments", "posts">>>>,
                     <<<<"posts", "comments">>, <<"posts", "comments">>>>} :
            /\ m' = with(m, rels, {}, maxDepth)
            /\ sent' = <<>>
            /\ result' = <<>>
            /\ last' = [Ended("with", NewIO(0), TRUE, 0, 0) EXCEPT !.depth = maxDepth]
            /\ UNCHANGED <<relations, db, config, conn>>

\* with(relations, {constraints}): constraints is the set of the paths under which
\* a constraint function is registered
WithConstraints ==
    \E rels \in {<<<<"posts">>>>, <<<<"posts", "comments">>>>} :
        \E constraints \in SUBSET {<<"posts">>, <<"posts", "comments">>} :
            /\ m' = with(m, rels, constraints, undefined)
            /\ sent' = <<>>
            /\ result' = <<>>
            /\ last' = Ended("with", NewIO(0), TRUE, 0, 0)
            /\ UNCHANGED <<relations, db, config, conn>>

\* a later static block: class `by` registers the relation name `as`
RegisterArgs ==
    {[by |-> "Post", fn |-> "hasMany", model |-> "Comment", as |-> "comments"],
     [by |-> "Comment", fn |-> "hasOne", model |-> "Profile", as |-> "profile"],
     [by |-> "Post", fn |-> "belongsTo", model |-> "Team", as |-> "team"],
     [by |-> "Post", fn |-> "belongsToMany", model |-> "Role", as |-> "roles"]}

Register ==
    \E a \in RegisterArgs :
        /\ relations' = CASE a.fn = "hasOne" -> hasOne(relations, a.model, "", "", a.as)
                          [] a.fn = "hasMany" -> hasMany(relations, a.model, "", "", a.as)
                          [] a.fn = "belongsTo" -> belongsTo(relations, a.model, "", "", a.as)
                          [] OTHER -> belongsToMany(relations, a.model, "", "", "", a.as)
        /\ sent' = <<>>
        /\ result' = <<>>
        /\ last' = [Ended("register", NewIO(0), last.fresh, 0, 0)
                        EXCEPT !.id = [kind |-> "name", v |-> <<a.as>>],
                               !.declared = @ \cup {<<a.by, a.as>>}]
        /\ UNCHANGED <<m, db, config, conn>>

\* new User() / new Post(): the calls that follow are made on a fresh instance
NewInstance ==
    \E e \in {"User", "Post"} :
        /\ m' = NewModel(e)
        /\ sent' = <<>>
        /\ result' = <<>>
        /\ last' = Ended("construct", NewIO(0), FALSE, 0, 0)
        /\ UNCHANGED <<relations, db, config, conn>>

\* a terminal call that ended as r = [self, io, rows]
Terminal(op, r, fresh, chunk, total) ==
    /\ m' = r.self
    /\ sent' = r.io.sent
    /\ result' = IF "rows" \in DOMAIN r THEN r.rows ELSE <<>>
    /\ last' = Ended(op, r.io, fresh, chunk, total)
    /\ UNCHANGED <<relations, db, config, conn>>

Get ==
    \E failAt \in 0..MaxFailAt, chunkSize \in {0, 1} :
        Terminal("get", get(m, NewIO(failAt), chunkSize), FALSE, chunkSize, 0)

First ==
    \E failAt \in 0..MaxFailAt :
        Terminal("first", first(m, NewIO(failAt)), FALSE, 0, 0)

\* a get() / first() is suspended on the driver
Awaiting == last.outcome = "awaiting"

\* get() / first() was called and ran up to its await: q is what Suspended gave.
\* The statement in flight is kept with the call until the driver settles it.
Started(op, q, chunkSize) ==
    /\ m' = q.self
    /\ sent' = q.io.sent
    /\ result' = <<>>
    /\ last' = [Ended(op, NewIO(0), FALSE, chunkSize, 0)
                    EXCEPT !.outcome = "awaiting",
                           !.id = [kind |-> "inflight", v |-> <<q>>]]
    /\ UNCHANGED <<relations, db, config, conn>>

FetchArgs == {<<"get", 0>>, <<"get", 1>>, <<"first", 0>>}

FetchStart ==
    /\ ~Awaiting
    /\ \E a \in FetchArgs, failAt \in 0..MaxFailAt :
           Started(a[1], Suspended(a[1], m, NewIO(failAt)), a[2])

\* the driver settles the statement in flight and the fetch runs to its end as r
Settled(r) ==
    /\ m' = r.self
    /\ sent' = r.io.sent
    /\ result' = r.rows
    /\ last' = [last EXCEPT !.outcome = IF r.io.err = "" THEN "returned" ELSE "threw",
                            !.error = r.io.err]
    /\ UNCHANGED <<relations, db, config, conn>>

FetchSettle == Awaiting /\ Settled(Resumed(last.op, m, last.id.v[1], last.chunk))

\* builder calls that another task makes on the instance while the fetch awaits
Meanwhile(self2) ==
    /\ m' = self2
    /\ UNCHANGED <<relations, db, sent, last, result, config, conn>>

WhereMeanwhile ==
    Awaiting /\ Room /\ \E a \in WhereArgs : Meanwhile(where(m, a[1], a[2], a[3]))

LimitMeanwhile == Awaiting /\ m._limit = null /\ Meanwhile(limit(m, 10, 5))

WithMeanwhile ==
    Awaiting /\ m._eagerLoad.relations = <<>>
             /\ Meanwhile(with(m, <<<<"posts">>>>, {}, undefined))

\* builder calls made while no fetch is in flight
WhereIdle == ~Awaiting /\ Where

\* paginate(perPage, currentPage) ended as r; the two arguments are kept
PaginateEnded(r, perPage, currentPage) ==
    /\ m' = r.self
    /\ sent' = r.io.sent
    /\ result' = r.rows
    /\ last' = [Ended("paginate", r.io, FALSE, 0, r.total)
                    EXCEPT !.lastPage = r.lastPage,
                           !.id = [kind |-> "page", v |-> <<perPage, currentPage>>]]
    /\ UNCHANGED <<relations, db, config, conn>>

Paginate ==
    \E failAt \in 0..MaxFailAt, a \in {<<2, 1>>, <<1, 2>>} :
        PaginateEnded(paginate(m, NewIO(failAt), a[1], a[2]), a[1], a[2])

Count ==
    \E failAt \in 0..MaxFailAt,
       conditions \in {<<>>, <<[field |-> "status", value |-> 1]>>} :
        /\ m' = count(m, NewIO(failAt), conditions).self
        /\ sent' = count(m, NewIO(failAt), conditions).io.sent
        /\ result' = <<>>
        /\ last' = [Ended("count", count(m, NewIO(failAt), conditions).io, last.fresh, 0, 0)
                        EXCEPT !.id = [kind |-> "conditions", v |-> conditions]]
        /\ UNCHANGED <<relations, db, config, conn>>

IdArgs == {NoId, ScalarId(1), ArrayId(<<>>), ArrayId(<<1, 2>>)}

\* update / delete ended with the i/o io; neither touches the pending state
Persisted(op, io, id) ==
    /\ sent' = io.sent
    /\ last' = EndedOn(op, io, last.fresh, 0, 0, id)
    /\ result' = <<>>
    /\ UNCHANGED <<m, relations, db, config, conn>>

Update ==
    \E failAt \in 0..1, id \in IdArgs, hookFail \in {"", "beforeUpdate", "afterUpdate"} :
        Persisted("update",
                  update(m, NewIO(failAt), id, <<[field |-> "status", value |-> 2]>>,
                         "", hookFail),
                  id)

Delete ==
    \E failAt \in 0..1, id \in IdArgs, column \in {"", "secret"},
       hookFail \in {"", "beforeDelete", "afterDelete"} :
        Persisted("delete", delete(m, NewIO(failAt), id, column, hookFail), id)

Insert ==
    \E failAt \in 0..1, hookFail \in {"", "validate", "beforeCreate", "afterCreate"} :
        Persisted("insert",
                  insert(m, NewIO(failAt), <<[field |-> "status", value |-> 1]>>, hookFail),
                  NoId)

\* this[this.primaryKey] of the instance the soft-delete calls are made on
KeyArgs == {undefined, 1}

SoftDelete ==
    \E failAt \in 0..1, key \in KeyArgs, hookFail \in {"", "beforeUpdate"} :
        Persisted("softDelete", softDelete(m, NewIO(failAt), key, hookFail), ScalarId(key))

Restore ==
    \E failAt \in 0..1, key \in KeyArgs, hookFail \in {"", "beforeUpdate"} :
        Persisted("restore", restore(m, NewIO(failAt), key, hookFail), ScalarId(key))

TrashedEnded(r) == IF r.ok THEN Fluent("onlyTrashed", r.self) ELSE FluentThrew("onlyTrashed")

OnlyTrashed == Room /\ TrashedEnded(onlyTrashed(m))

\* a transaction() call left the adapter as t; the pool chose the connections
TransactionEnded(t) ==
    \E picks \in [1..Len(t.log) -> 1..MaxPick] : conn' = Pooled(conn, t, picks)

Transaction ==
    \E n \in 0..MaxStatements, throws \in BOOLEAN,
       fail \in SUBSET {"beginTransaction", "query", "commit", "rollback"} :
        /\ conn.held < MaxHeld
        /\ TransactionEnded(transaction(conn, [statements |-> n, throws |-> throws], fail))
        /\ UNCHANGED <<m, relations, db, sent, last, result, config>>

Idle ==
    [op |-> "new", outcome |-> "returned", error |-> "", fresh |-> FALSE,
     hadFresh |-> FALSE, chunk |-> 0, total |-> 0, id |-> NoId, calls |-> <<>>,
     lastPage |-> 0, depth |-> undefined, declared |-> Declared]

InitWith(database, client) ==
    /\ m = NewModel("User")
    /\ relations = Registry
    /\ db = database
    /\ sent = <<>>
    /\ last = Idle
    /\ result = <<>>
    /\ config = DefaultConfig
    /\ conn = NewConnection(client)

\* the query builder on one instance
Init == InitWith(Database(2, <<1, null>>, TRUE), "mysql")

Next ==
    \/ Where \/ WhereIn \/ WhereBetween \/ WhereNull \/ WhereRaw
    \/ GroupStart \/ GroupEnd \/ WhereGroup
    \/ OrderBy \/ Limit \/ SelectSum
    \/ Get \/ First \/ Paginate

Spec == Init /\ [][Next]_vars

\* plain chains: where, orderBy, limit, then a fetch
NextSelect == Where \/ OrderBy \/ Limit \/ Get \/ First

SpecSelect == Init /\ [][NextSelect]_vars

\* pagination over plain conditions
NextPage == Where \/ WhereNull \/ WhereIn \/ OrderBy \/ Limit \/ Paginate

SpecPage == Init /\ [][NextPage]_vars

\* the remaining condition builders, and the counting calls
NextBuild ==
    \/ Where \/ WhereNotNull \/ OrWhere \/ WhereGroup \/ OrWhereGroup
    \/ GroupStart \/ GroupEnd
    \/ Get \/ Count

SpecBuild == Init /\ [][NextBuild]_vars

\* update and delete on one instance, with conditions pending or not
NextPersist ==
    \/ Where \/ WhereIn \/ WhereRaw \/ GroupStart \/ GroupEnd \/ WhereGroup
    \/ Update \/ Delete

SpecPersist == Init /\ [][NextPersist]_vars

\* eager loading over databases of 1 .. MaxParents parents
InitEager ==
    \E n \in 1..MaxParents, pivot \in BOOLEAN :
        \E teamOf \in [1..n -> {null, 1, 7}] :
            InitWith(Database(n, teamOf, pivot), "mysql")

NextEager == With \/ Get \/ First

SpecEager == InitEager /\ [][NextEager]_vars

\* allowedFields of the User model in the soft-delete configurations
SoftFields ==
    {EntityFields("User"),
     EntityFields("User") \o <<"deleted_at">>,
     EntityFields("User") \o <<"deleted_at", "updated_at">>}

\* the persistence calls under every soft-delete configuration
InitSoft ==
    \E softDeletes \in BOOLEAN, timestamps \in BOOLEAN, deletedAt \in {"deleted_at", ""},
       fields \in SoftFields :
        /\ m = [NewModel("User") EXCEPT !.allowedFields = fields]
        /\ relations = Registry
        /\ db = Database(1, <<null>>, FALSE)
        /\ sent = <<>>
        /\ last = Idle
        /\ result = <<>>
        /\ config = [DefaultConfig EXCEPT !.softDeletes = softDeletes,
                                          !.timestamps = timestamps,
                                          !.deletedAt = deletedAt]
        /\ conn = NewConnection("mysql")

\* raw fragments on models with and without the timestamp columns whitelisted
NextRaw == Where \/ WhereNull \/ WhereRaw \/ GroupStart \/ GroupEnd \/ Get

SpecRaw == InitSoft /\ [][NextRaw]_vars

NextSoft == Where \/ OnlyTrashed \/ SoftDelete \/ Restore \/ Insert \/ Update \/ Delete

SpecSoft == InitSoft /\ [][NextSoft]_vars

\* eager loading of dotted paths under a maxDepth option
NextDepth == WithDepth \/ Get \/ First

SpecDepth == Init /\ [][NextDepth]_vars

\* eager loading when Post declares comments with or without an explicit foreign key
InitNested ==
    \E n \in 1..MaxParents, explicit \in BOOLEAN :
        /\ m = NewModel("User")
        /\ relations = [Registry EXCEPT !["comments"].foreignKey =
                                            IF explicit THEN "post_id" ELSE ""]
        /\ db = Database(n, [i \in 1..n |-> null], FALSE)
        /\ sent = <<>>
        /\ last = Idle
        /\ result = <<>>
        /\ config = DefaultConfig
        /\ conn = NewConnection("mysql")

SpecNested == InitNested /\ [][NextEager]_vars

\* eager loading under constraint functions
NextConstraint == WithConstraints \/ Get \/ First

SpecConstraint == Init /\ [][NextConstraint]_vars

\* registrations by several classes, and eager loading on instances of two of them
NextRegistry == Register \/ NewInstance \/ With \/ Get \/ First

SpecRegistry == Init /\ [][NextRegistry]_vars

\* transactions on either adapter
InitTx == \E client \in {"mysql", "sqlite"} : InitWith(Database(1, <<null>>, FALSE), client)

NextTx == Transaction

SpecTx == InitTx /\ [][NextTx]_vars

\* a fetch in flight, and the builder calls of other tasks around it
NextAsync ==
    \/ FetchStart \/ FetchSettle
    \/ WhereMeanwhile \/ LimitMeanwhile \/ WithMeanwhile
    \/ WhereIdle

SpecAsync == Init /\ [][NextAsync]_vars

-----------------------------------------------------------------------------
(* Properties of the query builder (Spec, SpecSelect) *)

FetchReturned == last.op \in {"get", "first", "paginate"} /\ last.outcome = "returned"

Tokens(stmt) == SeqRange(stmt.sql)

\* C1: after get(), first() or paginate() returns, the condition list, the raw
\* list, the group buffer, the group depth, the ORDER BY list, the limit, the
\* offset and the sum fields of the instance are empty, and what the instance
\* compiles to is the bare SELECT on its table.
C1_ResetAfterFetch ==
    FetchReturned =>
        /\ m.whereConditions = <<>>
        /\ m.whereConditionsRaw = <<>>
        /\ m.whereGroupConditions = <<>>
        /\ m.whereGroupLevel = 0
        /\ m.orderByConditions = <<>>
        /\ m._limit = null
        /\ m.offset = null
        /\ m.selectSumFields = <<>>
        /\ ~buildWhereClauses(m).threw
        /\ SelectSql(m, buildWhereClauses(m)) = <<"SELECT", "*", "FROM", m.table>>

\* a paginate() that returned after sending a filtered, ordered, limited SELECT
C1_Witness ==
    /\ last.op = "paginate"
    /\ last.outcome = "returned"
    /\ Len(sent) = 2
    /\ {"WHERE", "ORDER", "LIMIT"} \subseteq Tokens(sent[2])
    /\ m = NewModel("User")

\* whether tokens holds the fragment `IN ( )` at position j
EmptyInAt(tokens, j) ==
    /\ j + 2 <= Len(tokens)
    /\ tokens[j] = "IN"
    /\ tokens[j + 1] = "("
    /\ tokens[j + 2] = ")"

\* C2: no statement handed to the driver holds an IN clause with an empty list:
\* a whereIn() with no values is left out of the compiled statement.
C2_NoEmptyInList ==
    \A i \in 1..Len(sent) : \A j \in 1..Len(sent[i].sql) : ~EmptyInAt(sent[i].sql, j)

RECURSIVE C6_Clauses(_)
\* c1 AND ... AND ck for simple conditions, written out from the pending list
C6_Clauses(conds) ==
    IF Len(conds) = 1 THEN <<conds[1].field, conds[1].operator, "?">>
    ELSE <<conds[1].field, conds[1].operator, "?", "AND">> \o C6_Clauses(Tail(conds))

RECURSIVE C6_Orders(_)
C6_Orders(orders) ==
    IF Len(orders) = 1 THEN <<orders[1].field, orders[1].direction>>
    ELSE <<orders[1].field, orders[1].direction, ",">> \o C6_Orders(Tail(orders))

\* the pending state left by k >= 1 simple where() calls, orderBy() calls and
\* limit(n, m) with m > 0, and by nothing else
C6_Chain ==
    /\ Len(m.whereConditions) >= 1
    /\ \A i \in 1..Len(m.whereConditions) :
           m.whereConditions[i].type = "" /\ m.whereConditions[i].operator \in {"=", ">"}
    /\ m.whereConditionsRaw = <<>>
    /\ m.whereOrConditions = <<>>
    /\ m.whereGroupConditions = <<>>
    /\ m.whereGroupLevel = 0
    /\ m.selectSumFields = <<>>
    /\ Len(m.orderByConditions) >= 1
    /\ m._limit # null
    /\ m.offset # null
    /\ m.offset > 0

C6_Statement ==
    <<"SELECT", "*", "FROM", m.table, "WHERE">> \o C6_Clauses(m.whereConditions)
    \o <<"ORDER", "BY">> \o C6_Orders(m.orderByConditions)
    \o <<"LIMIT", ToString(m._limit), "OFFSET", ToString(m.offset)>>

\* C6: get() on a chain of k >= 1 simple where conditions, orderBy calls and
\* limit(n, m), m > 0, sends the one statement SELECT * FROM t WHERE c1 AND ... AND
\* ck ORDER BY ... LIMIT n OFFSET m: conditions in call order, one WHERE keyword,
\* and as parameters the condition values in the order of their placeholders.
C6_CompiledSelect ==
    [][(C6_Chain /\ last'.op = "get") =>
          /\ Len(sent') = 1
          /\ sent'[1].sql = C6_Statement
          /\ Cardinality({j \in 1..Len(sent'[1].sql) : sent'[1].sql[j] = "WHERE"}) = 1
          /\ sent'[1].params =
                 [i \in 1..Len(m.whereConditions) |-> m.whereConditions[i].value[1]]]_vars

\* where(status, 1).where(age, >, 18).orderBy(age, DESC).limit(10, 5).get() was sent
C6_Witness ==
    /\ last.op = "get"
    /\ last.outcome = "returned"
    /\ sent = <<[via |-> "query",
                 sql |-> <<"SELECT", "*", "FROM", "users", "WHERE", "status", "=", "?",
                           "AND", "age", ">", "?", "ORDER", "BY", "age", "DESC",
                           "LIMIT", "10", "OFFSET", "5">>,
                 params |-> <<1, 18>>]>>

-----------------------------------------------------------------------------
(* Properties of update and delete (SpecPersist) *)

\* the call named no id while no condition was pending, or named an empty id list
C3_Unrestricted ==
    /\ last.op \in {"update", "delete"}
    /\ \/ /\ last.id.kind = "none"
          /\ m.whereConditions = <<>>
          /\ m.whereConditionsRaw = <<>>
       \/ /\ last.id.kind = "array"
          /\ last.id.v = <<>>

\* C3: update and delete called with no id and no pending condition, or with an
\* empty id list, fail with an error and hand no statement to the driver.
C3_RefusesUnrestricted ==
    C3_Unrestricted => (last.outcome = "threw" /\ last.error # "driver" /\ sent = <<>>)

\* update(data) with no id and nothing pending was refused
C3_Witness ==
    /\ C3_Unrestricted
    /\ last.op = "update"
    /\ last.id = NoId
    /\ last.error = "Error"
    /\ sent = <<>>

-----------------------------------------------------------------------------
(* Properties of eager loading (SpecEager) *)

\* the relation paths of the stored eager-load request
Request == m._eagerLoad.relations

\* the relation properties a row object carries
Attached(row) == {r \in RelationNames : row.rel[r].kind # "undefined"}

\* statements of the most recent call other than the root fetch
RelationQueries == Len(sent) - 1

\* a fetch returned a non-empty batch with a request for one registered relation
OneRelationLoaded ==
    /\ last.op \in {"get", "first"}
    /\ last.outcome = "returned"
    /\ Len(result) >= 1
    /\ Len(Request) = 1
    /\ Len(Request[1]) = 1
    /\ Request[1][1] \in DOMAIN relations

Requested == relations[Request[1][1]]

BatchByGet == OneRelationLoaded /\ last.op = "get" /\ last.chunk = 0

SomeForeignKey == \E i \in 1..Len(result) : Col(result[i], "team_id") # null

SomePivotRow ==
    \E i \in 1..Len(result) : \E j \in 1..Len(db.user_role) :
        db.user_role[j].user_id = Col(result[i], "id")

\* C4: eager loading one relation over N >= 1 parents fetched by get() without
\* chunkSize issues exactly 1 relation query for hasOne and hasMany; for belongsTo
\* 1 when some parent has a non-null foreign key and 0 when none has; for
\* belongsToMany 2 when the pivot table has rows for the parents and 1 when not.
C4_RelationQueryCount ==
    BatchByGet =>
        CASE Requested.type \in {"hasOne", "hasMany"} -> RelationQueries = 1
          [] Requested.type = "belongsTo" ->
               RelationQueries = (IF SomeForeignKey THEN 1 ELSE 0)
          [] OTHER -> RelationQueries = (IF SomePivotRow THEN 2 ELSE 1)

\* MaxParents parents, none with a team: the belongsTo load sent no query
C4_Witness ==
    /\ BatchByGet
    /\ Requested.type = "belongsTo"
    /\ Len(result) = MaxParents
    /\ ~SomeForeignKey
    /\ RelationQueries = 0

\* C4 as stated: exactly 1 relation query for hasOne, hasMany and belongsTo, at
\* most 2 for belongsToMany.
C4_ExactlyOneQuery ==
    BatchByGet =>
        IF Requested.type \in {"hasOne", "hasMany", "belongsTo"}
        THEN RelationQueries = 1
        ELSE RelationQueries <= 2

\* C5: get() with the request "posts.comments" sends three statements whatever the
\* number of parents: the root fetch, one posts query keyed by all the user ids,
\* and one comments query keyed by the ids of all the posts attached to them.
C5_OneQueryPerLevel ==
    (/\ last.op = "get"
     /\ last.outcome = "returned"
     /\ last.chunk = 0
     /\ Request = <<<<"posts", "comments">>>>) =>
        /\ Len(sent) = 3
        /\ sent[2].sql[4] = "posts"
        /\ sent[2].params = [i \in 1..Len(db.users) |-> i]
        /\ sent[3].sql[4] = "comments"
        /\ sent[3].params = [i \in 1..Len(db.posts) |-> i]
        /\ \A i \in 1..Len(result) :
               /\ result[i].rel["posts"].kind = "array"
               /\ \A j \in 1..Len(result[i].rel["posts"].rows) :
                      result[i].rel["posts"].rows[j].rel["comments"].kind = "array"

\* with("posts.comments").get() over 3 users with 2 posts each
C5_Witness ==
    /\ last.op = "get"
    /\ last.outcome = "returned"
    /\ last.chunk = 0
    /\ Request = <<<<"posts", "comments">>>>
    /\ Len(result) = 3
    /\ \A i \in 1..3 : Len(result[i].rel["posts"].rows) = 2
    /\ Len(sent) = 3

\* C7: a get() or first() that no with() call precedes since the last terminal
\* fetch issues no relation query and attaches no relation property to its rows.
C7_EagerLoadOnce ==
    (last.op \in {"get", "first"} /\ ~last.hadFresh) =>
        /\ RelationQueries <= 0
        /\ \A i \in 1..Len(result) : Attached(result[i]) = {}

\* some segment of some requested path is not registered
UnknownRequested ==
    \E i \in 1..Len(Request) : \E j \in 1..Len(Request[i]) :
        Request[i][j] \notin DOMAIN relations

\* C9: a fetch whose request names an unregistered relation fails before any
\* relation query is issued and before any relation property is attached.
C9_UnknownRelationFailsFirst ==
    (last.op \in {"get", "first"} /\ UnknownRequested) =>
        /\ last.outcome = "threw"
        /\ RelationQueries <= 0
        /\ \A i \in 1..Len(result) : Attached(result[i]) = {}

\* C10: after eager loading relation r over a non-empty batch every parent carries
\* r: a record or null for hasOne / belongsTo, a list for hasMany / belongsToMany.
C10_EveryParentCarries ==
    OneRelationLoaded =>
        \A i \in 1..Len(result) :
            result[i].rel[Request[1][1]].kind \in
                (IF Requested.type \in {"hasOne", "belongsTo"}
                 THEN {"object", "null"} ELSE {"array"})

-----------------------------------------------------------------------------
(* Properties of transactions (SpecTx) *)

Calls(name) == {i \in 1..Len(conn.log) : conn.log[i] = name}

\* C8: when the callback throws, rollback is invoked, commit is not, and the caller
\* receives the callback's error; and in every outcome release is invoked exactly
\* once, after the commit / rollback attempt.
C8_RollbackAndRelease ==
    conn.log # <<>> =>
        /\ conn.thrown = "callback" =>
               /\ Calls("rollback") # {}
               /\ Calls("commit") = {}
               /\ conn.received = "callback"
        /\ Calls("release") = {Len(conn.log)}

-----------------------------------------------------------------------------
(* Properties of the belongsToMany load (SpecEager) *)

\* the ids of the stored roles that the pivot rows link to user uid, in pivot order
RECURSIVE LinkedRoles(_, _)
LinkedRoles(pivot, uid) ==
    IF pivot = <<>> THEN <<>>
    ELSE (IF /\ Head(pivot).user_id = uid
             /\ \E j \in 1..Len(db.roles) : db.roles[j].id = Head(pivot).role_id
          THEN <<Head(pivot).role_id>> ELSE <<>>)
         \o LinkedRoles(Tail(pivot), uid)

RolesLoaded == OneRelationLoaded /\ Requested.type = "belongsToMany"

\* the pivot rows of user uid
PivotRowsOf(uid) == {j \in 1..Len(db.user_role) : db.user_role[j].user_id = uid}

\* C11: after a belongsToMany load every parent's list holds exactly the stored
\* target rows whose ids occur in that parent's pivot rows, in pivot-row order;
\* pivot ids without a target row are dropped, and the fetch raised no error.
C11_PivotOrderDanglingDropped ==
    RolesLoaded =>
        \A i \in 1..Len(result) :
            /\ result[i].rel["roles"].kind = "array"
            /\ [j \in 1..Len(result[i].rel["roles"].rows) |->
                   result[i].rel["roles"].rows[j].cols]
               = [j \in 1..Len(LinkedRoles(db.user_role, Col(result[i], "id"))) |->
                     [id |-> LinkedRoles(db.user_role, Col(result[i], "id"))[j]]]

\* user 1 got its two roles in pivot order, user 2, whose only pivot row dangles,
\* got the empty list
C11_Witness ==
    /\ RolesLoaded
    /\ last.op = "get"
    /\ Len(result) >= 2
    /\ Len(result[1].rel["roles"].rows) = 2
    /\ PivotRowsOf(Col(result[2], "id")) # {}
    /\ result[2].rel["roles"] = RelArray(<<>>)

-----------------------------------------------------------------------------
(* Properties of soft deletes and hooks (SpecSoft) *)

\* the softDeletes flag is off or no deleted-at column is configured
SoftDeletesOff == ~config.softDeletes \/ config.deletedAt = ""

\* C12: with soft deletes off, a softDelete(), restore() or onlyTrashed() call
\* throws an Error, sends no statement, runs no hook, and leaves the instance's
\* pending state as it was.
C12_SoftDeletesOffFails ==
    [][(SoftDeletesOff /\ last'.op \in {"softDelete", "restore", "onlyTrashed"}) =>
           /\ last'.outcome = "threw"
           /\ last'.error = "Error"
           /\ sent' = <<>>
           /\ last'.calls = <<>>
           /\ m' = m]_vars

\* softDelete() threw on an instance with two conditions pending
C12_Witness ==
    /\ SoftDeletesOff
    /\ last.op = "softDelete"
    /\ last.outcome = "threw"
    /\ Pending(m) = MaxPending
    /\ sent = <<>>

-----------------------------------------------------------------------------
(* Properties of whereRaw (SpecRaw) *)

\* words of a fragment: the tokens that are not punctuation, a number or a placeholder
Words(sql) == SeqRange(sql) \ {"?", "=", "<", ">", ";", ",", "(", ")", "1"}

\* the fragment names a column outside the whitelist or holds a forbidden keyword
Offending(self, sql) ==
    \/ \E w \in Words(sql) : w \notin SeqRange(self.allowedFields) \cup {self.primaryKey}
    \/ \E w \in Words(sql) : w \in {"DROP", "drop", "updated_at"}

\* C13: a whereRaw call whose fragment names an identifier that is neither the
\* primary key nor an allowed field, or contains DROP, DELETE, TRUNCATE, INSERT,
\* UPDATE or GRANT, throws and leaves the instance as it was.
C13_OffendingRawRejected ==
    [][(last'.op = "whereRaw" /\ Offending(m, last'.id.v)) =>
           /\ last'.outcome = "threw"
           /\ m' = m]_vars

\* "updated_at < ?" was refused on a model that whitelists updated_at and has a
\* raw fragment pending, which is still there
C13_Witness ==
    /\ last.op = "whereRaw"
    /\ last.id.v = <<"updated_at", "<", "?">>
    /\ "updated_at" \in SeqRange(m.allowedFields)
    /\ last.outcome = "threw"
    /\ Len(m.whereConditionsRaw) = 1

-----------------------------------------------------------------------------
(* Properties of paginate (SpecPage) *)

\* the WHERE part that the pending conditions of self compile to
WherePart(self) ==
    IF buildWhereClauses(self).has THEN <<"WHERE">> \o buildWhereClauses(self).sql ELSE <<>>

\* LIMIT perPage, and OFFSET (page - 1) * perPage when that is positive
LimitPart(perPage, page) ==
    <<"LIMIT", ToString(perPage)>>
    \o (IF (page - 1) * perPage > 0 THEN <<"OFFSET", ToString((page - 1) * perPage)>>
        ELSE <<>>)

\* s ends with the tokens t, and holds part right after its first k tokens
EndsWith(s, t) == Len(s) >= Len(t) /\ SubSeq(s, Len(s) - Len(t) + 1, Len(s)) = t

HoldsAt(s, k, part) == Len(s) >= k + Len(part) /\ SubSeq(s, k + 1, k + Len(part)) = part

\* n is the least number of pages of perPage rows that hold total rows
LeastPages(n, total, perPage) ==
    /\ n * perPage >= total
    /\ n >= 0
    /\ (n > 0 => (n - 1) * perPage < total)

\* C14: a paginate(perPage, page) call that returns has sent a COUNT statement
\* without LIMIT and then a SELECT that ends with LIMIT perPage and, when
\* (page-1)*perPage > 0, OFFSET (page-1)*perPage; both carry the WHERE part and the
\* parameters of the conditions pending at the call; lastPage = ceil(total/perPage).
C14_CountThenLimitedFetch ==
    [][(last'.op = "paginate" /\ last'.outcome = "returned") =>
           /\ Len(sent') = 2
           /\ sent'[1].sql = <<"SELECT", "COUNT(*)", "AS", "count", "FROM", m.table>>
                             \o WherePart(m)
           /\ "LIMIT" \notin SeqRange(sent'[1].sql)
           /\ HoldsAt(sent'[2].sql, 4, WherePart(m))
           /\ sent'[2].sql[4 + Len(WherePart(m)) + 1] \in {"ORDER", "LIMIT"}
           /\ EndsWith(sent'[2].sql, LimitPart(last'.id.v[1], last'.id.v[2]))
           /\ ((last'.id.v[2] - 1) * last'.id.v[1] = 0 =>
                   "OFFSET" \notin SeqRange(sent'[2].sql))
           /\ sent'[1].params = buildWhereClauses(m).params
           /\ sent'[2].params = buildWhereClauses(m).params
           /\ LeastPages(last'.lastPage, last'.total, last'.id.v[1])]_vars

\* paginate(2, 1) under one pending condition found one row: one page
C14_Witness ==
    /\ last.op = "paginate"
    /\ last.outcome = "returned"
    /\ last.id.v = <<2, 1>>
    /\ last.total = 1
    /\ last.lastPage = 1
    /\ Len(sent) = 2
    /\ "WHERE" \in SeqRange(sent[1].sql)
    /\ "WHERE" \in SeqRange(sent[2].sql)

-----------------------------------------------------------------------------
(* Properties of count (SpecBuild) *)

\* C15: a count() call without argument that returns has sent one COUNT statement that carries the
\* WHERE part and the parameters of the conditions pending at the call, and has
\* left the instance with its pending state reset.
C15_CountIsTerminal ==
    [][(last'.op = "count" /\ last'.id.v = <<>> /\ last'.outcome = "returned") =>
           /\ Len(sent') = 1
           /\ sent'[1].sql[2] = "COUNT(*)"
           /\ ~buildWhereClauses(m).threw
           /\ HoldsAt(sent'[1].sql, 6, WherePart(m))
           /\ sent'[1].params = buildWhereClauses(m).params
           /\ m' = resetQuery(m)]_vars

-----------------------------------------------------------------------------
(* Properties of the eager-load recursion (SpecDepth) *)

\* a get() without chunkSize returned, under a request for one dotted path
OnePathLoaded ==
    /\ last.op = "get"
    /\ last.outcome = "returned"
    /\ last.chunk = 0
    /\ Len(result) >= 1
    /\ Len(Request) = 1

Least(a, b) == IF a < b THEN a ELSE b

\* C16: after with(path, {maxDepth: M}), M >= 0, a get() issues relation queries
\* for the first M segments of the path only: min(M, length of the path) queries
\* over the has-many chains requested here, none when M = 0.
C16_MaxDepthBounds ==
    (OnePathLoaded /\ last.depth # undefined) =>
        RelationQueries = Least(last.depth, Len(Request[1]))

\* C17: within one fetch the batch of a nested level (the posts attached to the
\* parents, pending relation comments) is processed at most once: no two of the
\* statements sent are the same comments query.
C17_BatchProcessedOnce ==
    last.op \in {"get", "first"} =>
        \A i, j \in 1..Len(sent) :
            (i < j /\ sent[i].sql[4] = "comments") => sent[i] # sent[j]

-----------------------------------------------------------------------------
(* Properties of the hooks around insert, update and delete (SpecSoft) *)

BeforeHooks == {"beforeCreate", "beforeUpdate", "beforeDelete"}

AfterHooks == {"afterCreate", "afterUpdate", "afterDelete"}

\* the place of a collaborator in validate, before-hook, timestamp-set, after-hook
Rank(fn) ==
    CASE fn = "validate" -> 1
      [] fn \in BeforeHooks -> 2
      [] fn = "setTimestamps" -> 3
      [] OTHER -> 5

\* C18: in every insert, update and delete call the collaborators run in the order
\* validate, before-hook, timestamp-set, statement, after-hook: the calls made are
\* in that order, those before the statement ran with nothing sent, the after-hook
\* ran with the statement sent, and when validate or the before-hook threw no
\* statement was sent.
C18_HookOrder ==
    last.op \in {"insert", "update", "delete"} =>
        /\ \A i, j \in 1..Len(last.calls) :
               i < j => Rank(last.calls[i].fn) < Rank(last.calls[j].fn)
        /\ \A i \in 1..Len(last.calls) :
               last.calls[i].sent = (IF last.calls[i].fn \in AfterHooks THEN 1 ELSE 0)
        /\ (/\ last.error = "hook"
            /\ last.calls[Len(last.calls)].fn \in BeforeHooks \cup {"validate"})
               => sent = <<>>

-----------------------------------------------------------------------------
(* Properties of softDelete and restore (SpecSoft) *)

\* a softDelete() or restore() call returned on a model with soft deletes on
SoftCallReturned ==
    /\ last.op \in {"softDelete", "restore"}
    /\ ~SoftDeletesOff
    /\ last.outcome = "returned"

\* the statement is UPDATE t SET deletedAt = ? ..., its first parameter being v,
\* and its WHERE part begins with the primary key compared to the parameter key
SetsDeletedAt(stmt, v, key) ==
    /\ HoldsAt(stmt.sql, 0, <<"UPDATE", m.table, "SET", config.deletedAt, "=", "?">>)
    /\ Len(stmt.params) >= 2
    /\ stmt.params[1] = v
    /\ \E k \in 1..Len(stmt.sql) :
           /\ stmt.sql[k] = "WHERE"
           /\ HoldsAt(stmt.sql, k, <<m.primaryKey, "=", "?">>)
           /\ stmt.params[(k - 3) \div 4 + 1] = key

\* C19: with soft deletes on, a softDelete() that returns has sent one UPDATE that
\* sets the deleted-at column to the current time, a restore() one that sets it to
\* null, both restricted to the instance's primary key, whatever allowedFields is.
C19_SoftDeleteSetsColumn ==
    SoftCallReturned =>
        /\ Len(sent) = 1
        /\ SetsDeletedAt(sent[1], IF last.op = "softDelete" THEN Now ELSE null,
                         last.id.v[1])

-----------------------------------------------------------------------------
(* Properties of null comparisons (SpecSelect) *)

\* C20: no statement of a fetch compares a column to a null parameter with "=":
\* in SELECT * FROM t WHERE c1 AND ... AND ck, where the j-th condition begins at
\* token 6 + 4 * (j - 1) and owns the j-th parameter, a null parameter never
\* belongs to a condition whose operator is "=".
C20_NoEqualsNull ==
    last.op \in {"get", "first"} =>
        \A s \in 1..Len(sent) : \A j \in 1..Len(sent[s].params) :
            sent[s].params[j] = null => sent[s].sql[6 + 4 * (j - 1) + 1] # "="

-----------------------------------------------------------------------------
(* Properties of default keys under nesting (SpecNested) *)

\* a fetch under the request "posts.comments" sent its comments query
CommentsQueried ==
    /\ last.op \in {"get", "first"}
    /\ Request = <<<<"posts", "comments">>>>
    /\ Len(sent) >= 3
    /\ sent[3].sql[4] = "comments"

\* C21: when comments, declared by Post without explicit keys, is loaded as the
\* second segment of "posts.comments", its batch query filters on post_id (the
\* lower-cased name of the declaring entity + "_id"), not on user_id.
C21_NestedDefaultKeys ==
    (CommentsQueried /\ relations["comments"].foreignKey = "") =>
        sent[3].sql[6] = "post_id"

-----------------------------------------------------------------------------
(* Properties of grouping by foreign key (SpecEager) *)

\* the stored rows of a table whose user_id is uid, in table (= result) order
RECURSIVE OwnedBy(_, _)
OwnedBy(rows, uid) ==
    IF rows = <<>> THEN <<>>
    ELSE (IF Head(rows).user_id = uid THEN <<Head(rows)>> ELSE <<>>)
         \o OwnedBy(Tail(rows), uid)

\* the columns of the rows attached under relation r
AttachedCols(row, r) == [j \in 1..Len(row.rel[r].rows) |-> row.rel[r].rows[j].cols]

\* hasMany: every parent carries all the posts of its id, in result order
HasManyKeepsAll ==
    (OneRelationLoaded /\ Request[1][1] = "posts") =>
        \A i \in 1..Len(result) :
            AttachedCols(result[i], "posts") = OwnedBy(db.posts, Col(result[i], "id"))

\* C22: after a hasOne load a parent for which the batch query returned several
\* rows carries the first of them in result order; after a hasMany load a parent
\* carries all its rows in result order.
C22_HasOneKeepsFirst ==
    /\ HasManyKeepsAll
    /\ (OneRelationLoaded /\ Request[1][1] = "profile") =>
           \A i \in 1..Len(result) :
               OwnedBy(db.profiles, Col(result[i], "id")) # <<>> =>
                   AttachedCols(result[i], "profile")
                       = <<OwnedBy(db.profiles, Col(result[i], "id"))[1]>>

-----------------------------------------------------------------------------
(* Properties of constraint functions (SpecConstraint) *)

\* how many times the filter that a constraint function adds occurs in a statement
Constrained(stmt) == Cardinality({k \in 1..Len(stmt.sql) : stmt.sql[k] = ">"})

\* a get() without chunkSize returned under the request "posts.comments"
NestedLoaded ==
    /\ last.op = "get"
    /\ last.outcome = "returned"
    /\ last.chunk = 0
    /\ Request = <<<<"posts", "comments">>>>
    /\ Len(sent) = 3

\* C23: under the request "posts.comments" the posts query carries the filter of
\* the constraint registered under "posts", once, exactly when one is registered,
\* and the comments query that of the constraint registered under
\* "posts.comments", once, exactly when one is registered.
C23_ConstraintByFullPath ==
    NestedLoaded =>
        /\ Constrained(sent[2]) =
               (IF <<"posts">> \in m._eagerLoad.constraints THEN 1 ELSE 0)
        /\ Constrained(sent[3]) =
               (IF <<"posts", "comments">> \in m._eagerLoad.constraints THEN 1 ELSE 0)

-----------------------------------------------------------------------------
(* Properties of the relation registry (SpecRegistry) *)

\* a fetch whose root query was answered, on an instance whose class never
\* registered the one relation requested, which some other class did register
UndeclaredRequested ==
    /\ last.op \in {"get", "first"}
    /\ Len(Request) = 1
    /\ Len(Request[1]) = 1
    /\ Request[1][1] \in DOMAIN relations
    /\ <<m.name, Request[1][1]>> \notin last.declared
    /\ ~(Len(sent) = 1 /\ last.error = "driver")

\* a fetch that requests a relation of another class fails as undefined relation
ForeignRelationUndefined ==
    UndeclaredRequested =>
        /\ last.outcome = "threw"
        /\ last.error = "Error"
        /\ RelationQueries = 0

\* C24: the registry is per entity and write-once per name: a fetch on an instance
\* of B that requests a relation only other classes registered fails as an
\* undefined relation without a relation query, and a registration of a name that
\* is already registered leaves the descriptor stored under it as it was.
C24_RegistryPerEntityWriteOnce ==
    [][/\ ForeignRelationUndefined'
       /\ (last'.op = "register" /\ last'.id.v[1] \in DOMAIN relations) =>
              relations'[last'.id.v[1]] = relations[last'.id.v[1]]]_vars

-----------------------------------------------------------------------------
(* Properties of the callback groups (SpecBuild) *)

\* the pending top-level conditions of self that are groups
GroupsOf(self) ==
    {i \in 1..Len(self.whereConditions) : self.whereConditions[i].type = "group"}

\* the text a group compiles to: its members joined by its conjunction, in
\* parentheses
GroupClause(g) ==
    <<"(">>
    \o JoinTokens([i \in 1..Len(g.conditions) |-> buildSingleCondition(g.conditions[i]).sql],
                  <<g.conjunction>>)
    \o <<")">>

\* the parameters of the members of a group, in member order
GroupParams(g) ==
    FlatConcat([i \in 1..Len(g.conditions) |-> buildSingleCondition(g.conditions[i]).params])

Contains(s, part) == \E k \in 0..Len(s) : HoldsAt(s, k, part)

\* C25: a get() on an instance with a pending group fails only when the driver
\* does, and when it returns, the statement it sent holds each pending group as a
\* parenthesized clause whose members are joined by the group's conjunction, with
\* the members' parameters in member order among the statement's parameters.
C25_GroupsCompiled ==
    [][(last'.op = "get" /\ GroupsOf(m) # {}) =>
           /\ last'.error \in {"", "driver"}
           /\ last'.outcome = "returned" =>
                  \A i \in GroupsOf(m) :
                      /\ Contains(sent'[1].sql, GroupClause(m.whereConditions[i]))
                      /\ Contains(sent'[1].params, GroupParams(m.whereConditions[i]))]_vars

-----------------------------------------------------------------------------
(* Properties of the accepted conditions (SpecBuild) *)

\* the single conditions that the fluent calls have left on self, whichever list
\* holds them
Accepted(self) ==
    {self.whereConditions[i] :
        i \in {j \in 1..Len(self.whereConditions) : self.whereConditions[j].type # "group"}}
    \cup {self.whereOrConditions[i] : i \in 1..Len(self.whereOrConditions)}
    \cup {self.whereGroupConditions[i] : i \in 1..Len(self.whereGroupConditions)}

\* the statement stmt carries the condition c: its clause and its parameters
Carries(stmt, c) ==
    /\ Contains(stmt.sql, <<"WHERE">>)
    /\ Contains(stmt.sql, buildSingleCondition(c).sql)
    /\ Contains(stmt.params, buildSingleCondition(c).params)

\* C26: a get() that returns has sent a statement whose WHERE clause carries every
\* condition that where, orWhere, whereIn, whereBetween, whereNull and whereNotNull
\* had added before it, those added between groupStart() and groupEnd() included.
C26_NoConditionLost ==
    [][(last'.op = "get" /\ last'.outcome = "returned") =>
           \A c \in Accepted(m) : Carries(sent'[1], c)]_vars

-----------------------------------------------------------------------------
(* Properties of the pending state after a write (SpecPersist) *)

\* C27: an update(data) or delete() without id that is scoped by the pending
\* conditions and completes leaves no condition pending on the instance, so the
\* WHERE part a following call compiles from the instance is empty.
C27_WriteClearsPending ==
    [][(/\ last'.op \in {"update", "delete"}
        /\ last'.id = NoId
        /\ last'.outcome = "returned"
        /\ buildWhereClauses(m).has) =>
           /\ m'.whereConditions = <<>>
           /\ m'.whereConditionsRaw = <<>>
           /\ ~buildWhereClauses(m').has]_vars

-----------------------------------------------------------------------------
(* Properties of the pooled connections (SpecTx) *)

\* C28: on the MySQL adapter every statement of the transaction callback and the
\* closing COMMIT or ROLLBACK run on the pooled connection on which the transaction
\* was begun.
C28_OneConnectionPerTransaction ==
    (conn.client = "mysql" /\ conn.log # <<>>) =>
        \A i \in 1..Len(conn.log) :
            conn.log[i] \in {"query", "commit", "rollback"} => conn.on[i] = conn.on[1]

\* C29: after a transaction() on the SQLite adapter has completed, committed or
\* rolled back, the connection is still open, and a transaction whose
\* beginTransaction the driver does not fail is not ended by it.
C29_SqliteStaysOpen ==
    (conn.client = "sqlite" /\ conn.log # <<>>) =>
        /\ conn.open
        /\ "beginTransaction" \notin conn.fail => conn.thrown # "beginTransaction"

-----------------------------------------------------------------------------
(* Properties of a fetch in flight (SpecAsync) *)

\* the instance that a call of op compiles: first() sets LIMIT 1 before it compiles
AtCall(op, self) == IF op = "first" THEN limit(self, 1, 0) ELSE self

\* C30: a get() / first() compiles and clears the builder state before it suspends:
\* the one statement it hands to the driver is compiled from the state at the call
\* and the call leaves that state reset; a builder call of another task during the
\* await leaves the statement in flight as it is; and when the driver settles, the
\* statement is still that one and the state that the other tasks built is left
\* as it is, for the next call to compile.
C30_CompileAndClearBeforeSuspending ==
    [][/\ (~Awaiting /\ Awaiting') =>
              /\ Len(sent') = 1
              /\ sent'[1].sql = SelectSql(AtCall(last'.op, m),
                                          buildWhereClauses(AtCall(last'.op, m)))
              /\ sent'[1].params = buildWhereClauses(AtCall(last'.op, m)).params
              /\ m' = resetQuery(AtCall(last'.op, m))
       /\ (Awaiting /\ Awaiting') => sent' = sent
       /\ (Awaiting /\ ~Awaiting') =>
              /\ sent'[1] = sent[1]
              /\ m' = m]_vars

\* a fetch has returned while conditions that were added during its await are
\* pending, and the statement it sent has no WHERE clause
C30_Witness ==
    /\ last.op \in {"get", "first"}
    /\ last.outcome = "returned"
    /\ last.id.kind = "inflight"
    /\ m.whereConditions # <<>>
    /\ ~Contains(sent[1].sql, <<"WHERE">>)

=============================================================================
